---- MODULE Spec2Model ----
(***************************************************************************)
(* Hestia gateway: the cold-start request queue (hestia/request_queue.py)  *)
(* and the service lifecycle of the application (hestia/app.py): request   *)
(* handlers, proactive start, startup drivers, the status endpoint and the *)
(* idle monitor.                                                           *)
(*                                                                         *)
(* The specifications share the variables:                                 *)
(*   QSpec  the RequestQueue object driven through its public operations   *)
(*          in every order (as the unit tests drive it), and FairQSpec,    *)
(*          the same with the event loop running every armed timer;        *)
(*   Spec   the application: coroutines on one event loop (atomic between  *)
(*          awaits), the status endpoint in a worker thread and the idle   *)
(*          monitor in its own thread (both interleave statement by        *)
(*          statement with everything else), and a discrete clock.         *)
(***************************************************************************)
EXTENDS Integers, Sequences, FiniteSets, TLC

(***************************************************************************)
(* Bounds of the model.                                                    *)
(***************************************************************************)
MaxWaiters == 3      \* futures ever created by queue_request
MaxQueueSize == 2    \* RequestQueue.max_queue_size, scaled down from 100
MaxTime == 3         \* the clock stops here
MaxReqs == 2         \* proxy / dispatcher requests
MaxDrivers == 2      \* startup driver tasks ever created
MaxStarts == 2       \* calls of the proactive-start endpoint
MaxStatus == 1       \* calls of the status endpoint
MaxCalls == 3        \* client calls of the three kinds together
MaxRuns == 2         \* runs of the retry pipeline
MaxRetry == 2        \* largest retry_count configured

Services == {"a", "b"}
Waiters == 1..MaxWaiters
NoStamp == -1        \* last_used_ms is not in the record

VARIABLES
  rq,        \* the RequestQueue object, its futures and their timers
  cfg,       \* ServiceConfig of the application's service
  services,  \* _services: the per-service records
  now,       \* the clock, in ticks
  running,   \* the coroutine that holds the event loop inside a section
  req,       \* request handlers (transparent proxy, dispatcher)
  drv,       \* startup drivers (_start_service_async, synchronous fast path)
  st,        \* the status endpoint's worker thread
  mon,       \* the idle monitor thread
  pl,        \* the proxy pipeline: its configuration, the strategy registry,
             \* the load balancer's state and the pipeline runs
  unit,      \* a component driven on its own: the model router, the strategy
             \* registry, the load balancer
  starts     \* the proactive-start endpoint: the answers of the calls made;
             \* first: the last call was answered 202 with no status call in
             \* progress and no other client call since ("clean", or "demoted"
             \* once the idle monitor has written the record since);
             \* second: the value of first when the last call was made

vars == <<rq, cfg, services, now, running, req, drv, st, mon, starts, pl, unit>>
appvars == <<cfg, services, now, running, req, drv, st, mon, starts, pl, unit>>

(***************************************************************************)
(* RequestQueue                                                            *)
(***************************************************************************)
\* asyncio.Future.done()
FutureDone(f) == f \in {"released", "timeout", "cancelled"}

\* RequestQueue.__init__: no queues, no startup flags; no future exists yet.
RequestQueueInit ==
  [ queues   |-> [s \in Services |-> <<>>],
    starting |-> [s \in Services |-> FALSE],
    fut      |-> [w \in Waiters |-> "none"],
    timer    |-> [w \in Waiters |-> "none"],
    deadline |-> [w \in Waiters |-> 0],
    wsvc     |-> [w \in Waiters |-> "a"],
    nextW    |-> 1,
    sets     |-> [w \in Waiters |-> 0],        \* completions of each future
    log      |-> [s \in Services |-> <<>>] ]   \* futures in order of release

RemoveAt(q, i) == SubSeq(q, 1, i - 1) \o SubSeq(q, i + 1, Len(q))

\* a removal that leaves the deque as it is
LeaveEntry(q, w) == q

\* a removal that takes the head of the deque whatever future was asked for
RemoveHead(q, w) == IF q = <<>> THEN q ELSE Tail(q)

\* "for i, req in enumerate(queue): if req.future is future: del queue[i]; break"
RemoveFuture(q, w) ==
  IF \E i \in 1..Len(q) : q[i] = w
  THEN RemoveAt(q, CHOOSE i \in 1..Len(q) : q[i] = w /\ \A j \in 1..(i - 1) : q[j] # w)
  ELSE q

\* default_timeout_seconds (60 s), in ticks: the timeout of queue_request when
\* the caller gives none
DefaultTimeout == 1

\* queue_request raises ValueError when the service's deque is at max_queue_size
QueueFull(q) == Len(q) >= MaxQueueSize

\* queue_request on a queue that is not full: a new future is appended and its
\* timer armed (loop.call_later) in the same run of the coroutine.
queue_request(r, s, t, clock) ==
  LET w == r.nextW IN
  [r EXCEPT !.queues[s] = Append(@, w),
            !.fut[w] = "pending",
            !.timer[w] = "armed",
            !.deadline[w] = clock + t,
            !.wsvc[w] = s,
            !.nextW = w + 1]

TimeoutGuardAlways(f) == TRUE
\* _timeout_request: "if not future.done()"
TimeoutGuard(f) == ~FutureDone(f)

\* _timeout_request, run by the timer
timeout_request(r, w) ==
  LET s == r.wsvc[w] IN
  IF TimeoutGuard(r.fut[w])
  THEN [r EXCEPT !.queues[s] = RemoveFuture(@, w),
                 !.fut[w] = "timeout",
                 !.sets[w] = @ + 1,
                 !.timer[w] = "fired",
                 !.deadline[w] = 0]
  ELSE [r EXCEPT !.timer[w] = "fired", !.deadline[w] = 0]

PopRightPos(q) == Len(q)
\* deque.popleft(): the position taken by process_next_request / clear_queue
PopLeftPos(q) == 1

\* process_next_request on a non-empty queue
process_next_request(r, s) ==
  LET q == r.queues[s]
      i == PopLeftPos(q)
      w == q[i]
      live == ~FutureDone(r.fut[w])
  IN [r EXCEPT !.queues[s] = RemoveAt(q, i),
               !.fut[w] = IF live THEN "released" ELSE @,
               !.sets[w] = IF live THEN @ + 1 ELSE @,
               !.log[s] = IF live THEN Append(@, w) ELSE @]

\* process_all_requests: "while self.process_next_request(...)"
RECURSIVE process_all_requests(_, _)
process_all_requests(r, s) ==
  IF r.queues[s] = <<>> THEN r
  ELSE process_all_requests(process_next_request(r, s), s)

\* clear_queue: "while queue: popleft(); if not done: future.cancel()"
RECURSIVE clear_queue(_, _)
clear_queue(r, s) ==
  IF r.queues[s] = <<>> THEN r
  ELSE LET q == r.queues[s]
           i == PopLeftPos(q)
           w == q[i]
           live == ~FutureDone(r.fut[w])
       IN clear_queue([r EXCEPT !.queues[s] = RemoveAt(q, i),
                                !.fut[w] = IF live THEN "cancelled" ELSE @,
                                !.sets[w] = IF live THEN @ + 1 ELSE @], s)

is_service_starting(r, s) == r.starting[s]
\* mark_service_starting returns True (and sets the flag) iff the flag was clear
mark_service_starting_ok(r, s) == ~r.starting[s]
mark_service_starting(r, s) == [r EXCEPT !.starting[s] = TRUE]
\* a completion that leaves the flag as it is
leave_service_starting(r, s) == r
\* a completion that clears the flag of every service
mark_every_service_ready(r, s) == [r EXCEPT !.starting = [x \in Services |-> FALSE]]
mark_service_ready(r, s) == [r EXCEPT !.starting[s] = FALSE]
\* get_queue_status()["pending_requests"]
pending_requests(r, s) == Len(r.queues[s])

\* "future.add_done_callback(lambda f: timeout_handle.cancel())": the callback
\* is scheduled with call_soon when the future completes, so a timer that is
\* already due may still run before it.
timer_cancel(r, w) == [r EXCEPT !.timer[w] = "cancelled", !.deadline[w] = 0]

\* every done callback that is scheduled has run
RECURSIVE Settle(_)
Settle(r) ==
  IF \E w \in Waiters : r.timer[w] = "armed" /\ FutureDone(r.fut[w])
  THEN Settle(timer_cancel(r, CHOOSE w \in Waiters : r.timer[w] = "armed" /\ FutureDone(r.fut[w])))
  ELSE r

(***************************************************************************)
(* QSpec: the queue driven directly.  Timers may fire at any moment after  *)
(* they are armed (the deadline is whatever the caller chose).             *)
(***************************************************************************)
QueueRequest(s) ==
  /\ ~QueueFull(rq.queues[s])
  /\ rq.nextW <= MaxWaiters
  /\ rq' = queue_request(rq, s, DefaultTimeout, now)
  /\ UNCHANGED appvars

\* the ValueError path: nothing is changed
QueueRequestFull(s) ==
  /\ QueueFull(rq.queues[s])
  /\ UNCHANGED vars

QTimeout(w) ==
  /\ rq.timer[w] = "armed"
  /\ rq' = timeout_request(rq, w)
  /\ UNCHANGED appvars

QDoneCallback(w) ==
  /\ rq.timer[w] = "armed"
  /\ FutureDone(rq.fut[w])
  /\ rq' = timer_cancel(rq, w)
  /\ UNCHANGED appvars

QProcessNext(s) ==
  /\ rq.queues[s] # <<>>
  /\ rq' = process_next_request(rq, s)
  /\ UNCHANGED appvars

QProcessAll(s) ==
  /\ rq' = process_all_requests(rq, s)
  /\ UNCHANGED appvars

QClearQueue(s) ==
  /\ rq' = clear_queue(rq, s)
  /\ UNCHANGED appvars

QMarkStarting(s) ==
  /\ mark_service_starting_ok(rq, s)
  /\ rq' = mark_service_starting(rq, s)
  /\ UNCHANGED appvars

QMarkReady(s) ==
  /\ rq' = mark_service_ready(rq, s)
  /\ UNCHANGED appvars

(***************************************************************************)
(* The application (hestia/app.py), for one managed service.               *)
(* Time is counted in ticks; the program's millisecond constants are       *)
(* scaled to ticks.                                                        *)
(***************************************************************************)
MonitorPeriod == 2      \* check_interval_ms = 25
FastWarmupLimit == 1    \* "warmup_ms <= 100": the synchronous fast path

App == "a"
Drivers == 1..MaxDrivers
Reqs == 1..MaxReqs

\* ServiceConfig values the model runs under: health_url set or not, warmup_ms,
\* idle_timeout_ms, request_timeout_seconds, queue_size.  retry_count and
\* fallback_url keep their defaults (one attempt, no fallback).
Configs ==
  { [health |-> TRUE,  warmup |-> 2, idle |-> 1, rto |-> 1, qsize |-> 1],
    [health |-> FALSE, warmup |-> 1, idle |-> 1, rto |-> 2, qsize |-> 1],
    [health |-> FALSE, warmup |-> 0, idle |-> 0, rto |-> 1, qsize |-> 1] }

\* a key that a record (a dict) does not hold is "none"
NoRecord == [ex |-> FALSE, state |-> "none", readiness |-> "none", last |-> NoStamp]

\* service_state.get("state") == "hot" and service_state.get("readiness") == "ready"
IsReady(rec) == rec.state = "hot" /\ rec.readiness = "ready"

\* _touch: setdefault with a hot/ready record, then stamp last_used_ms
touch(rec, clock) ==
  IF rec.ex THEN [rec EXCEPT !.last = clock]
  ELSE [ex |-> TRUE, state |-> "hot", readiness |-> "ready", last |-> clock]

\* a sweep that looks at every service, whatever its idle_timeout_ms
IdleShutdownAlways(idle) == TRUE
\* _idle_monitor_loop: "if idle_ms <= 0: continue"
IdleShutdown(idle) == idle > 0

\* _idle_monitor_loop: "(now_ms - last) >= idle_ms"
IdleExpired(clock, last, idle) == (clock - last) >= idle

FreeDriver == [pc |-> "free", sync |-> FALSE, wake |-> 0, stamp |-> NoStamp]
DriverActive(d) == drv[d].pc # "free"
HasFreeDriver == \E d \in Drivers : ~DriverActive(d)
NewDriver == CHOOSE d \in Drivers : ~DriverActive(d) /\ \A e \in Drivers : e < d => DriverActive(e)

\* _ensure_idle_monitor_started: the thread starts and sweeps at once
ensure_idle_monitor_started(m) ==
  IF m.started THEN m ELSE [m EXCEPT !.started = TRUE, !.wake = now]

\* a request handler: where it is, whether it took the cold branch, the future
\* queue_request gave it (0: none), the upstream calls it has issued, its answer
NewRequest == [pc |-> "new", cold |-> FALSE, w |-> 0, calls |-> 0, resp |-> "none"]
\* a handler that has answered
Answered(a) == [pc |-> "done", cold |-> FALSE, w |-> 0, calls |-> 0, resp |-> a]

\* client calls made so far
Calls ==
  Cardinality({r \in Reqs : req[r].pc # "new"}) + Len(starts.answers) + st.n
    + (IF st.pc = "idle" THEN 0 ELSE 1)

(***************************************************************************)
(* The upstream selector and the load balancer strategy.                   *)
(* URLs are names: "U" is base_url, "S" the URL a routing strategy         *)
(* returns, "F" a fallback_url that is no instance, "A" and "B" the        *)
(* instances; "" is the empty string.                                      *)
(***************************************************************************)
BaseUrl == "U"
Urls == {"A", "B", "U", "S", "F", "", "raise"}
Runs == 1..MaxRuns

\* what client.request gives: a status code, or TransportError when it raises
TransportError == 0
NoResponse == -1
Outcomes == {200, 404, 500, TransportError}

\* what strategy.route_request gives: a URL, an empty value, or "raise"
RouteReturns == {"S", "", "raise"}

\* an entry of instances that has no "url" key: instance["url"] raises KeyError
NoUrlKey == "?"

\* ServiceConfig fields of the pipeline: retry_count, retry_delay_ms (0 or
\* positive), fallback_url ("": none), strategy ("": none), instances (their
\* "url" entries); lbreg: the plugin directory held load_balancer.py when the
\* strategies were loaded
PipelineConfigs ==
  [ retry     : 0..MaxRetry,
    delay     : {0, 1},
    fallback  : {"", "F", "B"},
    strategy  : {"", "router", "load_balancer", "ghost"},
    instances : {<<>>, <<"A", "B">>, <<"">>, <<NoUrlKey>>},
    lbreg     : BOOLEAN ]

\* _strategy_registry: "router" stands for a strategy with route_request
\* (model_router), "ghost" for a name no plugin registered
Registered(c, name) == name = "router" \/ (name = "load_balancer" /\ c.lbreg)
\* hasattr(strategy, "route_request"): LoadBalancerStrategy has none
HasRouteRequest(name) == name = "router"

\* "isinstance(url, str) and url"
IsUrl(u) == u \notin {"", "none"}

\* an exception of the strategy or of the balancer reaches the caller
Propagate(v) == v
\* "try: ... except Exception: pass": what the call gave, nothing if it raised
Swallow(v) == IF v = "raise" THEN "none" ELSE v

\* LoadBalancerStrategy.__init__: empty dicts
LoadBalancerInit ==
  [ known         |-> FALSE,
    instances     |-> <<>>,
    current_index |-> 0,
    health_status |-> [u \in Urls |-> "absent"] ]

InstanceUrls(instances) == {instances[i] : i \in 1..Len(instances)}

\* the dict comprehension over instance["url"] raises
RegisterRaises(instances) == \E i \in 1..Len(instances) : instances[i] = NoUrlKey

\* register_service_instances: the list is replaced, the cursor set to 0 and
\* every instance set healthy; when an entry has no "url" the call raises
\* after the first two assignments
register_service_instances(lb, instances) ==
  [ known         |-> TRUE,
    instances     |-> instances,
    current_index |-> 0,
    health_status |-> IF RegisterRaises(instances) THEN lb.health_status
                      ELSE [u \in Urls |-> IF u \in InstanceUrls(instances)
                                           THEN "healthy" ELSE "absent"] ]

\* every instance counts as healthy
AllInstances(lb) == lb.instances

\* "health_status[service_id].get(instance['url'], True)"
HealthyInstances(lb) ==
  SelectSeq(lb.instances, LAMBDA u : lb.health_status[u] # "unhealthy")

\* get_next_instance: the URL picked ("none": None) and the balancer after it
get_next_instance(lb) ==
  LET healthy == HealthyInstances(lb) IN
  IF ~lb.known THEN [picked |-> "none", lb |-> lb]
  ELSE IF healthy = <<>>
  THEN [picked |-> IF lb.instances # <<>> THEN lb.instances[1] ELSE "none", lb |-> lb]
  ELSE [picked |-> healthy[(lb.current_index % Len(healthy)) + 1],
        lb |-> [lb EXCEPT !.current_index = (@ + 1) % Len(healthy)]]

mark_instance_unhealthy(lb, u) ==
  IF lb.health_status[u] # "absent" THEN [lb EXCEPT !.health_status[u] = "unhealthy"] ELSE lb

mark_instance_healthy(lb, u) ==
  IF lb.health_status[u] # "absent" THEN [lb EXCEPT !.health_status[u] = "healthy"] ELSE lb

\* _mark_instance_unhealthy_on_error, _mark_instance_healthy_on_success: through
\* the load_balancer instance, when the registry has one
mark_instance_unhealthy_on_error(c, lb, u) ==
  IF c.lbreg THEN mark_instance_unhealthy(lb, u) ELSE lb
mark_instance_healthy_on_success(c, lb, u) ==
  IF c.lbreg THEN mark_instance_healthy(lb, u) ELSE lb

\* "if strategy_name: ... if strategy and hasattr(strategy, 'route_request')":
\* route_request is called
StrategyAsked(c) ==
  c.strategy # "" /\ Registered(c, c.strategy) /\ HasRouteRequest(c.strategy)

\* the balancer after "lb.register_service_instances(service_id, instances)"
\* and its pick ("raise": the registration raised and no pick was made)
BalancerPick(c, lb) ==
  IF RegisterRaises(c.instances)
  THEN [picked |-> "raise", lb |-> register_service_instances(lb, c.instances)]
  ELSE get_next_instance(register_service_instances(lb, c.instances))

\* the selector with the balancer asked before the strategy
resolve_balancer_first(c, lb, ret) ==
  LET g == BalancerPick(c, lb)
      picked == Swallow(g.picked)
      url == Swallow(ret)
  IN IF c.instances # <<>> /\ c.lbreg /\ IsUrl(picked)
     THEN [base |-> picked, reason |-> "load_balancer", lb |-> g.lb]
     ELSE IF StrategyAsked(c) /\ IsUrl(url)
     THEN [base |-> url, reason |-> "strategy:" \o c.strategy, lb |-> lb]
     ELSE [base |-> BaseUrl, reason |-> "base_url", lb |-> lb]

\* _resolve_upstream_base: the URL, the reason, and the balancer after the
\* call.  ret is what route_request returns when it is called.  Both calls
\* are inside "try: ... except Exception: pass".
resolve_upstream_base(c, lb, ret) ==
  LET g == BalancerPick(c, lb)
      picked == Swallow(g.picked)
      url == Swallow(ret)
  IN IF StrategyAsked(c) /\ IsUrl(url)
     THEN [base |-> url, reason |-> "strategy:" \o c.strategy, lb |-> lb]
     ELSE IF c.instances # <<>> /\ c.lbreg
     THEN IF IsUrl(picked)
          THEN [base |-> picked, reason |-> "load_balancer", lb |-> g.lb]
          ELSE [base |-> BaseUrl, reason |-> "base_url", lb |-> g.lb]
     ELSE [base |-> BaseUrl, reason |-> "base_url", lb |-> lb]

\* the attempts of the primary loop count retry_count as is
TotalAttemptsRaw(c) == c.retry
\* "total_attempts = retry_count; if total_attempts < 1: total_attempts = 1"
TotalAttempts(c) == IF c.retry < 1 THEN 1 ELSE c.retry

\* every status from 400 up is retried
RetryStatusAll(status) == status >= 400
\* "if upstream_response.status_code >= 500"
RetryStatus(status) == status >= 500

\* "if 200 <= upstream_response.status_code < 500"
HealthyStatus(status) == 200 <= status /\ status < 500

\* a run of _perform_proxy_request (_perform_gateway_request is the same
\* loop): outs are the outcomes of its primary attempts and fbs those of its
\* fallback attempts, slept the retry delays it has waited, resp its answer
NewRun ==
  [ pc |-> "new", attempt |-> 0, base |-> "none", reason |-> "none",
    sret |-> "none", picked |-> "none", outs |-> <<>>, fbs |-> <<>>,
    slept |-> 0, resp |-> NoResponse ]

Pipeline(c) == [conf |-> c, lb |-> LoadBalancerInit, run |-> [p \in Runs |-> NewRun]]

\* the pipeline of a service with the default retry_count, no fallback_url, no
\* strategy and no instances, before any run
PipelineOff ==
  Pipeline([retry |-> 1, delay |-> 0, fallback |-> "", strategy |-> "",
            instances |-> <<>>, lbreg |-> TRUE])

\* the application after import, whatever its configuration
AppAtRest ==
  /\ rq = RequestQueueInit
  /\ services = [s \in Services |-> NoRecord]
  /\ now = 0
  /\ running = 0
  /\ req = [r \in Reqs |-> NewRequest]
  /\ drv = [d \in Drivers |-> FreeDriver]
  /\ st = [pc |-> "idle", state |-> "none", readiness |-> "none", n |-> 0,
           stamp |-> NoStamp]
  /\ mon = [started |-> FALSE, pc |-> "sleep", wake |-> 0, last |-> NoStamp]
  /\ starts = [answers |-> <<>>, first |-> "none", second |-> "none"]

AppInit == AppAtRest /\ cfg \in Configs

\* no component is driven on its own
UnitOff == [of |-> "none"]

\* the application with no traffic on the retry pipeline
Init == AppInit /\ pl = PipelineOff /\ unit = UnitOff


(***************************************************************************)
(* Request handlers: transparent_proxy and dispatch_request.               *)
(* "await _request_queue.queue_request(...)" awaits the coroutine, whose   *)
(* value is the future; the future itself is not awaited, so the handler   *)
(* goes on to the upstream call in the same run.                           *)
(***************************************************************************)
\* the cold branch up to the await of the request body: claim the flag and
\* create the driver task when no startup is in progress
ColdStart(r) ==
  IF ~is_service_starting(r, App) /\ mark_service_starting_ok(r, App)
  THEN mark_service_starting(r, App) ELSE r
Launches(r) == ~is_service_starting(r, App) /\ mark_service_starting_ok(r, App)

\* queue_request and what follows it in the handler: a full queue raises and
\* the handler answers 503; otherwise the upstream call is issued
Enqueue(r, q1) ==
  IF QueueFull(q1.queues[App])
  THEN /\ rq' = q1
       /\ req' = [req EXCEPT ![r] = Answered("503")]
  ELSE /\ q1.nextW <= MaxWaiters
       /\ rq' = queue_request(q1, App, cfg.rto, now)
       /\ req' = [req EXCEPT ![r] = [@ EXCEPT !.pc = "wait", !.cold = TRUE,
                                                !.w = q1.nextW, !.calls = @ + 1]]

\* body = TRUE: a transparent-proxy POST/PUT/PATCH, which awaits request.body()
\* before queue_request; body = FALSE: any other proxy request, or a dispatcher
\* request
ReqBegin(r, body) ==
  /\ req[r].pc = "new"
  /\ running = 0
  /\ Calls < MaxCalls
  /\ \A p \in Reqs : p < r => req[p].pc # "new"
  /\ mon' = ensure_idle_monitor_started(mon)
  /\ starts' = [starts EXCEPT !.first = "none", !.second = "none"]
  /\ IF IsReady(services[App])
     THEN /\ req' = [req EXCEPT ![r] = [@ EXCEPT !.pc = "wait", !.calls = @ + 1]]
          /\ UNCHANGED <<rq, drv>>
     ELSE /\ Launches(rq) => HasFreeDriver
          /\ drv' = IF Launches(rq)
                    THEN [drv EXCEPT ![NewDriver] = [@ EXCEPT !.pc = "created"]]
                    ELSE drv
          /\ IF body
             THEN /\ rq' = ColdStart(rq)
                  /\ req' = [req EXCEPT ![r] = [@ EXCEPT !.pc = "body", !.cold = TRUE]]
             ELSE Enqueue(r, ColdStart(rq))
  /\ UNCHANGED <<cfg, services, now, running, st, pl, unit>>

ReqEnqueue(r) ==
  /\ req[r].pc = "body"
  /\ running = 0
  /\ Enqueue(r, rq)
  /\ UNCHANGED <<cfg, services, now, running, drv, st, mon, starts, pl, unit>>

\* the upstream attempt (the only one: retry_count = 1, no fallback_url) ends.
\* responded: the upstream answered, with any status; activity is stamped and
\* the upstream's response is the answer.  Otherwise the call raised, and the
\* answer is 503.
ReqRecv(r, responded) ==
  /\ req[r].pc = "wait"
  /\ running = 0
  /\ services' = IF responded THEN [services EXCEPT ![App] = touch(@, now)] ELSE services
  /\ req' = [req EXCEPT ![r] = Answered(IF responded THEN "upstream" ELSE "503")]
  /\ UNCHANGED <<rq, cfg, now, running, drv, st, mon, starts, pl, unit>>

\* the timer of a queued request comes due: _timeout_request
TimerFire(w) ==
  /\ rq.timer[w] = "armed"
  /\ now >= rq.deadline[w]
  /\ running = 0
  /\ rq' = timeout_request(rq, w)
  /\ UNCHANGED appvars

(***************************************************************************)
(* Startup drivers: _start_service_async, and the synchronous fast path of *)
(* start_service_proactively (sync = TRUE: it keeps the event loop).       *)
(* The three writes of the promotion are separate steps: the threads see   *)
(* the record between them.                                                *)
(***************************************************************************)
\* _services.setdefault(service_id, {})["readiness"] = "ready"
WriteReadiness(rec, v) == [rec EXCEPT !.ex = TRUE, !.readiness = v]
WriteState(rec, v) == [rec EXCEPT !.ex = TRUE, !.state = v]
WriteLast(rec, v) == [rec EXCEPT !.ex = TRUE, !.last = v]

\* "now_ms = int(time.time() * 1000)", then the driver's first write
DrvPromote(d) ==
  /\ services' = [services EXCEPT ![App] = WriteReadiness(@, "ready")]
  /\ drv' = [drv EXCEPT ![d] = [@ EXCEPT !.pc = "w_state", !.stamp = now]]
  /\ running' = d

DrvRun(d) ==
  /\ drv[d].pc = "created"
  /\ running = 0
  /\ IF cfg.health
     THEN /\ drv' = [drv EXCEPT ![d] = [@ EXCEPT !.pc = "probe"]]
          /\ UNCHANGED <<services, running>>
     ELSE IF cfg.warmup > 0
     THEN /\ drv' = [drv EXCEPT ![d] = [@ EXCEPT !.pc = "sleep", !.wake = now + cfg.warmup]]
          /\ UNCHANGED <<services, running>>
     ELSE DrvPromote(d)
  /\ UNCHANGED <<rq, cfg, now, req, st, mon, starts, pl, unit>>

\* the health probe of the driver answers: 200, or anything else (another
\* status, an exception), which falls back to the warmup sleep
DrvProbe(d, ok) ==
  /\ drv[d].pc = "probe"
  /\ running = 0
  /\ IF ~ok /\ cfg.warmup > 0
     THEN /\ drv' = [drv EXCEPT ![d] = [@ EXCEPT !.pc = "sleep", !.wake = now + cfg.warmup]]
          /\ UNCHANGED <<services, running>>
     ELSE DrvPromote(d)
  /\ UNCHANGED <<rq, cfg, now, req, st, mon, starts, pl, unit>>

DrvWake(d) ==
  /\ drv[d].pc = "sleep"
  /\ now >= drv[d].wake
  /\ running = IF drv[d].sync THEN d ELSE 0
  /\ DrvPromote(d)
  /\ UNCHANGED <<rq, cfg, now, req, st, mon, starts, pl, unit>>

DrvWriteState(d) ==
  /\ drv[d].pc = "w_state"
  /\ services' = [services EXCEPT ![App] = WriteState(@, "hot")]
  /\ drv' = [drv EXCEPT ![d] = [@ EXCEPT !.pc = "w_last"]]
  /\ UNCHANGED <<rq, cfg, now, running, req, st, mon, starts, pl, unit>>

\* the last write, then mark_service_ready and process_all_requests
DrvFinish(d) ==
  /\ drv[d].pc = "w_last"
  /\ services' = [services EXCEPT ![App] = WriteLast(@, drv[d].stamp)]
  /\ \E q \in {process_all_requests(mark_service_ready(rq, App), App)} : rq' = Settle(q)
  /\ drv' = [drv EXCEPT ![d] = FreeDriver]
  /\ running' = 0
  /\ UNCHANGED <<cfg, now, req, st, mon, starts, pl, unit>>

(***************************************************************************)
(* start_service_proactively                                               *)
(***************************************************************************)
StartAnswerNoFlag(rec, flag) == IF IsReady(rec) THEN "409r" ELSE "202"
StartAnswerNoHot(rec, flag) == IF flag THEN "409s" ELSE "202"
\* 409 "already running", 409 "already starting" (is_service_starting, or
\* mark_service_starting returning False), else 202
StartAnswer(rec, flag) ==
  IF IsReady(rec) THEN "409r" ELSE IF flag THEN "409s" ELSE "202"

\* "warmup_ms <= 100 and not health_url"
FastPath(c) == c.warmup <= FastWarmupLimit /\ ~c.health

StartCall ==
  /\ running = 0
  /\ Len(starts.answers) < MaxStarts
  /\ Calls < MaxCalls
  /\ mon' = ensure_idle_monitor_started(mon)
  /\ LET ans == StartAnswer(services[App], is_service_starting(rq, App))
         d == NewDriver
     IN /\ starts' = [answers |-> Append(starts.answers, ans),
                      first |-> IF ans = "202" /\ st.pc = "idle" THEN "clean" ELSE "none",
                      second |-> starts.first]
        /\ IF ans # "202"
           THEN UNCHANGED <<rq, services, drv, running>>
           ELSE /\ HasFreeDriver
                /\ rq' = mark_service_starting(rq, App)
                /\ IF FastPath(cfg)
                   THEN IF cfg.warmup > 0
                        THEN /\ drv' = [drv EXCEPT ![d] =
                                  [pc |-> "sleep", sync |-> TRUE, wake |-> now + cfg.warmup,
                                   stamp |-> NoStamp]]
                             /\ running' = d
                             /\ UNCHANGED services
                        ELSE /\ services' = [services EXCEPT ![App] = WriteReadiness(@, "ready")]
                             /\ drv' = [drv EXCEPT ![d] =
                                  [pc |-> "w_state", sync |-> TRUE, wake |-> 0, stamp |-> now]]
                             /\ running' = d
                   ELSE /\ drv' = [drv EXCEPT ![d] = [@ EXCEPT !.pc = "created"]]
                        /\ UNCHANGED <<services, running>>
  /\ UNCHANGED <<cfg, now, req, st, pl, unit>>


(***************************************************************************)
(* get_service_status: a plain "def", run in a worker thread.              *)
(***************************************************************************)
\* service_state.get("state", "cold"), service_state.get("readiness", "not_ready")
StateOr(rec) == IF rec.state = "none" THEN "cold" ELSE rec.state
ReadinessOr(rec) == IF rec.readiness = "none" THEN "not_ready" ELSE rec.readiness

\* the probe is made for any record whenever a health_url is configured
ShouldProbeAlways(rec, c) == c.health

\* "if not (state == 'hot' and readiness == 'ready') and health_url"
ShouldProbe(rec, c) == ~IsReady(rec) /\ c.health

StBegin ==
  /\ st.pc = "idle"
  /\ st.n < MaxStatus
  /\ Calls < MaxCalls
  /\ mon' = ensure_idle_monitor_started(mon)
  /\ starts' = [starts EXCEPT !.first = "none", !.second = "none"]
  /\ LET rec == services[App]
         probe == ShouldProbe(rec, cfg)
     IN st' = [st EXCEPT !.pc = IF probe THEN "probe" ELSE "end",
                         !.state = StateOr(rec), !.readiness = ReadinessOr(rec)]
  /\ UNCHANGED <<rq, cfg, services, now, running, req, drv, pl, unit>>

\* httpx.get(health_url, timeout=2.0) answers; on 200 the first write
StProbe(ok) ==
  /\ st.pc = "probe"
  /\ IF ok
     THEN /\ services' = [services EXCEPT ![App] = WriteState(@, "hot")]
          /\ st' = [st EXCEPT !.pc = "w_ready", !.stamp = now]
     ELSE /\ st' = [st EXCEPT !.pc = "end"]
          /\ UNCHANGED services
  /\ UNCHANGED <<rq, cfg, now, running, req, drv, mon, starts, pl, unit>>

StWriteReady ==
  /\ st.pc = "w_ready"
  /\ services' = [services EXCEPT ![App] = WriteReadiness(@, "ready")]
  /\ st' = [st EXCEPT !.pc = "w_last"]
  /\ UNCHANGED <<rq, cfg, now, running, req, drv, mon, starts, pl, unit>>

StWriteLast ==
  /\ st.pc = "w_last"
  /\ services' = [services EXCEPT ![App] = WriteLast(@, st.stamp)]
  /\ st' = [st EXCEPT !.pc = "clear", !.state = "hot", !.readiness = "ready",
                      !.stamp = NoStamp]
  /\ UNCHANGED <<rq, cfg, now, running, req, drv, mon, starts, pl, unit>>

\* after a promotion: "if is_service_starting: mark_service_ready"
StatusClear(r) == IF is_service_starting(r, App) THEN mark_service_ready(r, App) ELSE r

\* the state reported: "starting" when the flag is set and the pair read is
\* not hot/ready
StatusState(r, state, readiness) ==
  IF is_service_starting(r, App) /\ ~(state = "hot" /\ readiness = "ready")
  THEN "starting" ELSE state

StEnd ==
  /\ st.pc \in {"clear", "end"}
  /\ rq' = IF st.pc = "clear" THEN StatusClear(rq) ELSE rq
  /\ st' = [st EXCEPT !.pc = "idle", !.n = @ + 1, !.state = "none", !.readiness = "none"]
  /\ UNCHANGED <<cfg, services, now, running, req, drv, mon, starts, pl, unit>>

(***************************************************************************)
(* _idle_monitor_loop, in its own thread.  One sweep: read the clock and   *)
(* last_used_ms, read the state, write state, write readiness, sleep.      *)
(***************************************************************************)
\* the record was written by the monitor after a start call answered 202
MonitorWrote(f) == IF f = "none" THEN "none" ELSE "demoted"

MonSleepLong(m) == [m EXCEPT !.pc = "sleep", !.wake = now + 2 * MonitorPeriod, !.last = NoStamp]
\* time.sleep(check_interval_ms / 1000) at the end of a sweep
MonSleep(m) == [m EXCEPT !.pc = "sleep", !.wake = now + MonitorPeriod, !.last = NoStamp]

MonWake ==
  /\ mon.started
  /\ mon.pc = "sleep"
  /\ now >= mon.wake
  /\ mon' = IF services[App].ex /\ IdleShutdown(cfg.idle)
            THEN [mon EXCEPT !.pc = "check",
                    !.last = IF services[App].last = NoStamp THEN now ELSE services[App].last]
            ELSE MonSleep(mon)
  /\ UNCHANGED <<rq, cfg, services, now, running, req, drv, st, starts, pl, unit>>

MonCheck ==
  /\ mon.pc = "check"
  /\ IF services[App].state = "hot" /\ IdleExpired(now, mon.last, cfg.idle)
     THEN /\ services' = [services EXCEPT ![App] = WriteState(@, "cold")]
          /\ mon' = [mon EXCEPT !.pc = "w_ready", !.last = NoStamp]
          /\ starts' = [starts EXCEPT !.first = MonitorWrote(@)]
     ELSE /\ mon' = MonSleep(mon)
          /\ UNCHANGED <<services, starts>>
  /\ UNCHANGED <<rq, cfg, now, running, req, drv, st, pl, unit>>

MonWriteReady ==
  /\ mon.pc = "w_ready"
  /\ services' = [services EXCEPT ![App] = WriteReadiness(@, "not_ready")]
  /\ mon' = MonSleep(mon)
  /\ starts' = [starts EXCEPT !.first = MonitorWrote(@)]
  /\ UNCHANGED <<rq, cfg, now, running, req, drv, st, pl, unit>>

(***************************************************************************)
(* The clock.  Computation takes no time: a tick waits for the event loop  *)
(* to be between sections (or blocked in the fast path's time.sleep), for  *)
(* a created task to have had its first run, for the status thread to be   *)
(* idle or in its probe, and for a due sweep of the monitor to have run.   *)
(***************************************************************************)
Tick ==
  /\ now < MaxTime
  /\ IF running = 0 THEN TRUE ELSE drv[running].pc = "sleep"
  /\ \A d \in Drivers : drv[d].pc # "created"
  /\ st.pc \in {"idle", "probe"}
  /\ mon.pc = "sleep"
  /\ mon.started => now < mon.wake
  /\ now' = now + 1
  /\ UNCHANGED <<rq, cfg, services, running, req, drv, st, mon, starts, pl, unit>>

Next ==
  \/ \E r \in Reqs, body \in BOOLEAN : ReqBegin(r, body)
  \/ \E r \in Reqs : ReqEnqueue(r)
  \/ \E r \in Reqs, responded \in BOOLEAN : ReqRecv(r, responded)
  \/ \E w \in Waiters : TimerFire(w)
  \/ \E d \in Drivers : DrvRun(d)
  \/ \E d \in Drivers, ok \in BOOLEAN : DrvProbe(d, ok)
  \/ \E d \in Drivers : DrvWake(d)
  \/ \E d \in Drivers : DrvWriteState(d)
  \/ \E d \in Drivers : DrvFinish(d)
  \/ StartCall
  \/ StBegin
  \/ \E ok \in BOOLEAN : StProbe(ok)
  \/ StWriteReady
  \/ StWriteLast
  \/ StEnd
  \/ MonWake
  \/ MonCheck
  \/ MonWriteReady
  \/ Tick

Spec == Init /\ [][Next]_vars

(***************************************************************************)
(* Failure of a startup driver.  The only await of the driver that lies    *)
(* outside its inner try is the warmup sleep; an exception there reaches   *)
(* "except Exception": clear_queue, then mark_service_ready.               *)
(***************************************************************************)
DrvFail(d) ==
  /\ drv[d].pc = "sleep"
  /\ running = IF drv[d].sync THEN d ELSE 0
  /\ \E q \in {mark_service_ready(clear_queue(rq, App), App)} : rq' = Settle(q)
  /\ drv' = [drv EXCEPT ![d] = FreeDriver]
  /\ running' = 0
  /\ UNCHANGED <<cfg, services, now, req, st, mon, starts, pl, unit>>

FNext == Next \/ \E d \in Drivers : DrvFail(d)

\* the application with startup drivers that may fail
FSpec == Init /\ [][FNext]_vars

(***************************************************************************)
(* The application with its scheduling.  The event loop runs every task    *)
(* that is ready, the status and monitor threads are scheduled, a health   *)
(* probe ends (httpx timeout) and a sleep ends: each step that is enabled  *)
(* is eventually taken.  The clock goes on past MaxTime for as long as a   *)
(* driver waits for its warmup sleep to end.                               *)
(***************************************************************************)
DrvClock ==
  /\ now >= MaxTime
  /\ \E d \in Drivers : drv[d].pc = "sleep" /\ now < drv[d].wake
  /\ IF running = 0 THEN TRUE ELSE drv[running].pc = "sleep"
  /\ \A d \in Drivers : drv[d].pc # "created"
  /\ st.pc \in {"idle", "probe"}
  /\ mon.pc = "sleep"
  /\ mon.started => now < mon.wake
  /\ now' = now + 1
  /\ UNCHANGED <<rq, cfg, services, running, req, drv, st, mon, starts, pl, unit>>


\* a step of a task, of a timer, of the monitor or of the clock; the arrival of
\* a client call (ReqBegin, StartCall) is no such step.  With idle shutdown
\* disabled a sweep of the monitor is MonWake alone.
DProgress ==
  \/ \E r \in Reqs : ReqEnqueue(r)
  \/ \E r \in Reqs, responded \in BOOLEAN : ReqRecv(r, responded)
  \/ \E w \in Waiters : TimerFire(w)
  \/ \E d \in Drivers : DrvRun(d)
  \/ \E d \in Drivers, ok \in BOOLEAN : DrvProbe(d, ok)
  \/ \E d \in Drivers : DrvWake(d)
  \/ \E d \in Drivers : DrvFail(d)
  \/ \E d \in Drivers : DrvWriteState(d)
  \/ \E d \in Drivers : DrvFinish(d)
  \/ MonWake
  \/ Tick
  \/ DrvClock

DFair == WF_vars(DProgress)

\* proxy and start calls arrive; get_service_status is not called
DNext ==
  \/ \E r \in Reqs, body \in BOOLEAN : ReqBegin(r, body)
  \/ StartCall
  \/ DProgress

\* a health_url whose probe decides alone, a warmup sleep without a probe (in
\* the background for a proxy call, in the handler for a start call), and no
\* wait at all; idle shutdown is disabled
DriverConfigs ==
  { [health |-> TRUE,  warmup |-> 0, idle |-> 0, rto |-> 1, qsize |-> 1],
    [health |-> FALSE, warmup |-> 1, idle |-> 0, rto |-> 1, qsize |-> 1],
    [health |-> FALSE, warmup |-> 0, idle |-> 0, rto |-> 1, qsize |-> 1] }

DInit == AppAtRest /\ cfg \in DriverConfigs /\ pl = PipelineOff /\ unit = UnitOff

DSpec == DInit /\ [][DNext]_vars /\ DFair

(***************************************************************************)
(* The clock between the steps of a thread.  In Spec a thread's steps take *)
(* no time; here the clock may advance at any moment, also between the     *)
(* reading of now_ms by the status thread or a driver and the writes that  *)
(* follow it.                                                              *)
(***************************************************************************)
Elapse ==
  /\ now < MaxTime
  /\ now' = now + 1
  /\ UNCHANGED <<rq, cfg, services, running, req, drv, st, mon, starts, pl, unit>>

TNext ==
  \/ \E r \in Reqs, body \in BOOLEAN : ReqBegin(r, body)
  \/ \E r \in Reqs : ReqEnqueue(r)
  \/ \E r \in Reqs, responded \in BOOLEAN : ReqRecv(r, responded)
  \/ \E w \in Waiters : TimerFire(w)
  \/ \E d \in Drivers : DrvRun(d)
  \/ \E d \in Drivers, ok \in BOOLEAN : DrvProbe(d, ok)
  \/ \E d \in Drivers : DrvWake(d)
  \/ \E d \in Drivers : DrvWriteState(d)
  \/ \E d \in Drivers : DrvFinish(d)
  \/ StBegin
  \/ \E ok \in BOOLEAN : StProbe(ok)
  \/ StWriteReady
  \/ StWriteLast
  \/ StEnd
  \/ Elapse

\* request handlers, startup drivers and the status thread under a clock that
\* runs freely
TSpec == Init /\ [][TNext]_vars

(***************************************************************************)
(* The proxy pipeline: _perform_proxy_request and _perform_gateway_request.*)
(* A run is suspended at each "await client.request" and at each           *)
(* "await asyncio.sleep"; what lies between two awaits is one step.        *)
(***************************************************************************)
\* where the loop goes after a primary attempt that is to be retried
Retry(c, r) ==
  [r EXCEPT !.pc = IF c.delay > 0 THEN "sleep" ELSE "primary", !.attempt = @ + 1]

\* the end of the primary loop without a response returned: the fallback
\* attempt when fallback_url is set, else the 503 of the gateway
Exhausted(c, r) ==
  IF c.fallback # "" THEN [r EXCEPT !.pc = "fallback"]
  ELSE [r EXCEPT !.pc = "done", !.resp = 503]

\* "for attempt in range(total_attempts)": the first attempt, if there is one
EnterLoop(c, r) ==
  IF 0 < TotalAttempts(c) THEN [r EXCEPT !.pc = "primary"] ELSE Exhausted(c, r)

\* the run after a primary attempt with outcome out
AfterPrimary(c, r, out) ==
  LET r1 == [r EXCEPT !.outs = Append(@, out)] IN
  IF out = TransportError
  THEN IF r.attempt < TotalAttempts(c) - 1 THEN Retry(c, r1) ELSE Exhausted(c, r1)
  ELSE IF RetryStatus(out) /\ r.attempt < TotalAttempts(c) - 1
       THEN Retry(c, r1)
       ELSE [r1 EXCEPT !.pc = "done", !.resp = out]

\* the balancer after a primary attempt against base with outcome out
MarkPrimary(c, lb, base, out) ==
  IF out # TransportError /\ HealthyStatus(out)
  THEN mark_instance_healthy_on_success(c, lb, base)
  ELSE mark_instance_unhealthy_on_error(c, lb, base)

\* the selector is asked and the first attempt issued; ret is what
\* route_request returns ("none": it is not called), and picked keeps what the
\* balancer gives for the configured instances when it is asked
PBegin(p, ret) ==
  /\ pl.run[p].pc = "new"
  /\ ret = "none" <=> ~StrategyAsked(pl.conf)
  /\ \A q \in Runs : q < p => pl.run[q].pc # "new"
  /\ LET res == resolve_upstream_base(pl.conf, pl.lb, ret) IN
     pl' = [pl EXCEPT !.lb = res.lb,
                      !.run[p] = EnterLoop(pl.conf,
                                   [@ EXCEPT !.base = res.base, !.reason = res.reason,
                                             !.sret = ret,
                                             !.picked = BalancerPick(pl.conf, pl.lb).picked])]
  /\ UNCHANGED <<rq, cfg, services, now, running, req, drv, st, mon, starts, unit>>

\* a primary attempt ends: client.request returns a response or raises
PPrimary(p, out) ==
  /\ pl.run[p].pc = "primary"
  /\ services' = IF out # TransportError
                 THEN [services EXCEPT ![App] = touch(@, now)] ELSE services
  /\ pl' = [pl EXCEPT !.lb = MarkPrimary(pl.conf, @, pl.run[p].base, out),
                      !.run[p] = AfterPrimary(pl.conf, @, out)]
  /\ UNCHANGED <<rq, cfg, now, running, req, drv, st, mon, starts, unit>>

\* asyncio.sleep(retry_delay_ms / 1000) is over
PWake(p) ==
  /\ pl.run[p].pc = "sleep"
  /\ pl' = [pl EXCEPT !.run[p] = [@ EXCEPT !.pc = "primary", !.slept = @ + 1]]
  /\ UNCHANGED <<rq, cfg, services, now, running, req, drv, st, mon, starts, unit>>

\* the fallback attempt ends: its response is returned whatever its status;
\* if it raises, the run answers 503
PFallback(p, out) ==
  /\ pl.run[p].pc = "fallback"
  /\ services' = IF out # TransportError
                 THEN [services EXCEPT ![App] = touch(@, now)] ELSE services
  /\ pl' = [pl EXCEPT !.run[p] = [@ EXCEPT !.pc = "done", !.fbs = Append(@, out),
                                           !.resp = IF out # TransportError
                                                    THEN out ELSE 503]]
  /\ UNCHANGED <<rq, cfg, now, running, req, drv, st, mon, starts, unit>>

PNext ==
  \/ \E p \in Runs, ret \in RouteReturns \cup {"none"} : PBegin(p, ret)
  \/ \E p \in Runs, out \in Outcomes : PPrimary(p, out)
  \/ \E p \in Runs : PWake(p)
  \/ \E p \in Runs, out \in Outcomes : PFallback(p, out)

\* a service under every pipeline configuration
PInit ==
  /\ AppInit /\ cfg = (CHOOSE c \in Configs : c.health)
  /\ pl \in {Pipeline(c) : c \in PipelineConfigs}
  /\ unit = UnitOff

\* the application at rest, for the specifications that drive one component
UnitInit == AppInit /\ cfg = (CHOOSE c \in Configs : c.health) /\ pl = PipelineOff

PSpec == PInit /\ [][PNext]_vars

(***************************************************************************)
(* The two entry shapes side by side: transparent_proxy with               *)
(* _perform_proxy_request, and dispatch_request with                       *)
(* _perform_gateway_request, each on its own copy of the queue and of the  *)
(* balancer, given the same configuration, the same lifecycle state and    *)
(* the same upstream outcomes.                                             *)
(***************************************************************************)
\* every status from 400 up is retried by the dispatcher
GwRetryStatusAll(status) == status >= 400
\* _perform_gateway_request: "if upstream_response.status_code >= 500"
GwRetryStatus(status) == status >= 500
\* "total_attempts = service_config.retry_count; if total_attempts < 1: ..."
GwTotalAttempts(c) == IF c.retry < 1 THEN 1 ELSE c.retry
\* "if 200 <= upstream_response.status_code < 500"
GwHealthyStatus(status) == 200 <= status /\ status < 500

GwRetry(c, r) ==
  [r EXCEPT !.pc = IF c.delay > 0 THEN "sleep" ELSE "primary", !.attempt = @ + 1]

\* the fallback attempt when fallback_url is set; else "raise Exception(...)",
\* which dispatch_request answers with status 503
GwExhausted(c, r) ==
  IF c.fallback # "" THEN [r EXCEPT !.pc = "fallback"]
  ELSE [r EXCEPT !.pc = "done", !.resp = 503]

GwEnterLoop(c, r) ==
  IF 0 < GwTotalAttempts(c) THEN [r EXCEPT !.pc = "primary"] ELSE GwExhausted(c, r)

GwAfterPrimary(c, r, out) ==
  LET r1 == [r EXCEPT !.outs = Append(@, out)] IN
  IF out = TransportError
  THEN IF r.attempt < GwTotalAttempts(c) - 1 THEN GwRetry(c, r1) ELSE GwExhausted(c, r1)
  ELSE IF GwRetryStatus(out) /\ r.attempt < GwTotalAttempts(c) - 1
       THEN GwRetry(c, r1)
       ELSE [r1 EXCEPT !.pc = "done", !.resp = out]

GwMarkPrimary(c, lb, base, out) ==
  IF out # TransportError /\ GwHealthyStatus(out)
  THEN mark_instance_healthy_on_success(c, lb, base)
  ELSE mark_instance_unhealthy_on_error(c, lb, base)

\* one entry shape at work: its queue, whether it created a startup driver,
\* its run, its balancer and the service record as it sees it
NewSide(q, rec) ==
  [rq |-> q, launched |-> FALSE, run |-> NewRun, lb |-> LoadBalancerInit, rec |-> rec]

\* transparent_proxy up to the call of _perform_proxy_request
ProxyEntry(sd, ready) ==
  IF ready THEN sd
  ELSE LET q1 == ColdStart(sd.rq) IN
       IF QueueFull(q1.queues[App])
       THEN [sd EXCEPT !.rq = q1, !.launched = Launches(sd.rq),
                       !.run = [@ EXCEPT !.pc = "done", !.resp = 503]]
       ELSE [sd EXCEPT !.rq = queue_request(q1, App, cfg.rto, now),
                       !.launched = Launches(sd.rq)]

\* dispatch_request up to the call of _perform_gateway_request
GatewayEntry(sd, ready) ==
  IF ready THEN sd
  ELSE LET claim == ~is_service_starting(sd.rq, App) /\ mark_service_starting_ok(sd.rq, App)
           q1 == IF claim THEN mark_service_starting(sd.rq, App) ELSE sd.rq
       IN IF QueueFull(q1.queues[App])
          THEN [sd EXCEPT !.rq = q1, !.launched = claim,
                          !.run = [@ EXCEPT !.pc = "done", !.resp = 503]]
          ELSE [sd EXCEPT !.rq = queue_request(q1, App, cfg.rto, now),
                          !.launched = claim]

\* the selector and the entry into the attempt loop
ProxyRoute(sd, c, ret) ==
  IF sd.run.pc = "done" THEN sd
  ELSE LET res == resolve_upstream_base(c, sd.lb, ret) IN
       [sd EXCEPT !.lb = res.lb,
                  !.run = EnterLoop(c, [@ EXCEPT !.base = res.base, !.reason = res.reason])]

GatewayRoute(sd, c, ret) ==
  IF sd.run.pc = "done" THEN sd
  ELSE LET res == resolve_upstream_base(c, sd.lb, ret) IN
       [sd EXCEPT !.lb = res.lb,
                  !.run = GwEnterLoop(c, [@ EXCEPT !.base = res.base, !.reason = res.reason])]

\* "_touch(service_id)" as soon as client.request has returned a response
Touched(sd, out, clock) ==
  IF out # TransportError THEN [sd EXCEPT !.rec = touch(@, clock)] ELSE sd

ProxyPrimary(sd, c, out, clock) ==
  IF sd.run.pc # "primary" THEN sd
  ELSE [Touched(sd, out, clock) EXCEPT !.lb = MarkPrimary(c, @, sd.run.base, out),
                                !.run = AfterPrimary(c, @, out)]

GatewayPrimary(sd, c, out, clock) ==
  IF sd.run.pc # "primary" THEN sd
  ELSE [Touched(sd, out, clock) EXCEPT !.lb = GwMarkPrimary(c, @, sd.run.base, out),
                                !.run = GwAfterPrimary(c, @, out)]

SideWake(sd) ==
  IF sd.run.pc # "sleep" THEN sd
  ELSE [sd EXCEPT !.run = [@ EXCEPT !.pc = "primary", !.slept = @ + 1]]

\* the fallback attempt of either shape: its response is the answer; if it
\* raises, the proxy returns 503 and the dispatcher turns the exception of
\* _perform_gateway_request into status 503
ProxyFallback(sd, out, clock) ==
  IF sd.run.pc # "fallback" THEN sd
  ELSE [Touched(sd, out, clock) EXCEPT
          !.run = [@ EXCEPT !.pc = "done", !.fbs = Append(@, out),
                            !.resp = IF out # TransportError THEN out ELSE 503]]

GatewayFallback(sd, out, clock) ==
  IF sd.run.pc # "fallback" THEN sd
  ELSE [Touched(sd, out, clock) EXCEPT
          !.run = [@ EXCEPT !.pc = "done", !.fbs = Append(@, out),
                            !.resp = IF out # TransportError THEN out ELSE 503]]

\* the same request arrives at both shapes
EBegin(ret) ==
  /\ unit.step = "new"
  /\ ret = "none" <=> ~StrategyAsked(unit.conf)
  /\ unit' = [unit EXCEPT !.step = "run",
                          !.px = ProxyRoute(ProxyEntry(@, IsReady(@.rec)), unit.conf, ret),
                          !.gw = GatewayRoute(GatewayEntry(@, IsReady(@.rec)), unit.conf, ret)]
  /\ UNCHANGED <<rq, cfg, services, now, running, req, drv, st, mon, starts, pl>>

\* the upstream gives both the same outcome for their pending attempt
EPrimary(out) ==
  /\ unit.step = "run"
  /\ unit.px.run.pc = "primary" \/ unit.gw.run.pc = "primary"
  /\ unit' = [unit EXCEPT !.clock = @ + 1,
                          !.px = ProxyPrimary(@, unit.conf, out, unit.clock),
                          !.gw = GatewayPrimary(@, unit.conf, out, unit.clock)]
  /\ UNCHANGED <<rq, cfg, services, now, running, req, drv, st, mon, starts, pl>>

EWake ==
  /\ unit.step = "run"
  /\ unit.px.run.pc = "sleep" \/ unit.gw.run.pc = "sleep"
  /\ unit' = [unit EXCEPT !.clock = @ + 1, !.px = SideWake(@), !.gw = SideWake(@)]
  /\ UNCHANGED <<rq, cfg, services, now, running, req, drv, st, mon, starts, pl>>

EFallback(out) ==
  /\ unit.step = "run"
  /\ unit.px.run.pc = "fallback" \/ unit.gw.run.pc = "fallback"
  /\ unit' = [unit EXCEPT !.clock = @ + 1,
                          !.px = ProxyFallback(@, out, unit.clock),
                          !.gw = GatewayFallback(@, out, unit.clock)]
  /\ UNCHANGED <<rq, cfg, services, now, running, req, drv, st, mon, starts, pl>>

ENext ==
  \/ \E ret \in RouteReturns \cup {"none"} : EBegin(ret)
  \/ \E out \in Outcomes : EPrimary(out)
  \/ EWake
  \/ \E out \in Outcomes : EFallback(out)

\* the queue when the request arrives: empty with the flag clear, or a startup
\* in progress with no, one or two (a full queue) requests waiting
EntryQueues ==
  LET q0 == RequestQueueInit
      q1 == mark_service_starting(q0, App)
      q2 == queue_request(q1, App, 1, 0)
      q3 == queue_request(q2, App, 1, 0)
  IN {q0, q1, q2, q3}

\* the record when the request arrives: none, demoted by the idle monitor, or
\* hot and ready; its stamp lies before the request
EntryRecords ==
  { NoRecord,
    [ex |-> TRUE, state |-> "cold", readiness |-> "not_ready", last |-> 0],
    [ex |-> TRUE, state |-> "hot", readiness |-> "ready", last |-> 0] }

\* the upstream calls and the retry delays of the run take time: the clock of
\* the unit advances with each of them
EInit ==
  /\ UnitInit
  /\ unit \in {[step |-> "new", conf |-> c, clock |-> 1,
                 px |-> NewSide(q, rec), gw |-> NewSide(q, rec)] :
                  c \in PipelineConfigs, rec \in EntryRecords, q \in EntryQueues}

ESpec == EInit /\ [][ENext]_vars

(***************************************************************************)
(* LoadBalancerStrategy, called on its own, with regions.  An instance is  *)
(* named by its URL; "A" and "S" lie in region "east", "B" in "west", "F"  *)
(* has no "region" key.                                                    *)
(***************************************************************************)
Regions == {"east", "west"}
RegionOf(u) == IF u \in {"A", "S"} THEN "east" ELSE IF u = "B" THEN "west" ELSE "none"

InstanceLists == {<<>>, <<"A", "B">>, <<"B", "A", "S">>, <<"A", "F", "B">>}

\* "if request_context and 'user_region' in request_context": the healthy
\* instances of that region, when there are any ("none": no user_region)
RegionalInstances(healthy, user_region) ==
  LET regional == SelectSeq(healthy, LAMBDA u : RegionOf(u) = user_region) IN
  IF user_region # "none" /\ regional # <<>> THEN regional ELSE healthy

\* get_next_instance(service_id, request_context)
get_next_instance_in(lb, user_region) ==
  LET healthy == HealthyInstances(lb)
      chosen == RegionalInstances(healthy, user_region)
  IN IF ~lb.known THEN [picked |-> "none", lb |-> lb]
     ELSE IF healthy = <<>>
     THEN [picked |-> IF lb.instances # <<>> THEN lb.instances[1] ELSE "none", lb |-> lb]
     ELSE [picked |-> chosen[(lb.current_index % Len(chosen)) + 1],
           lb |-> [lb EXCEPT !.current_index = (@ + 1) % Len(chosen)]]

\* a call of the balancer: what was called, on which balancer, with what result
LbCalled(op, arg, res) ==
  /\ unit' = [of |-> "balancer", op |-> op, arg |-> arg, before |-> unit.lb,
              picked |-> res.picked, lb |-> res.lb]
  /\ UNCHANGED <<rq, cfg, services, now, running, req, drv, st, mon, starts, pl>>

LbRegister(instances) ==
  LbCalled("register", "none",
           [picked |-> "none", lb |-> register_service_instances(unit.lb, instances)])

LbNext(user_region) ==
  LbCalled("get_next_instance", user_region, get_next_instance_in(unit.lb, user_region))

LbMarkUnhealthy(u) ==
  LbCalled("mark_unhealthy", u, [picked |-> "none", lb |-> mark_instance_unhealthy(unit.lb, u)])

LbMarkHealthy(u) ==
  LbCalled("mark_healthy", u, [picked |-> "none", lb |-> mark_instance_healthy(unit.lb, u)])

LNext ==
  \/ \E instances \in InstanceLists : LbRegister(instances)
  \/ \E user_region \in Regions \cup {"none"} : LbNext(user_region)
  \/ \E u \in {"A", "B", "S", "F"} : LbMarkUnhealthy(u)
  \/ \E u \in {"A", "B", "S", "F"} : LbMarkHealthy(u)

LInit ==
  /\ UnitInit
  /\ unit = [of |-> "balancer", op |-> "none", arg |-> "none", before |-> LoadBalancerInit,
             picked |-> "none", lb |-> LoadBalancerInit]

LSpec == LInit /\ [][LNext]_vars

(***************************************************************************)
(* _ensure_idle_monitor_started, statement by statement.  The handlers of  *)
(* the event loop call it one after the other ("loop"); get_service_status *)
(* is a plain function, which the framework runs in threads of a pool, so  *)
(* its calls run beside the event loop and beside each other.              *)
(***************************************************************************)
Callers == {"loop", "worker1", "worker2"}
MaxEnsure == 2       \* calls of each caller

\* _IDLE_THREAD_STARTED = False, and no thread exists
EnsureInit ==
  [of |-> "monitor", flag |-> FALSE, loops |-> 0,
   pc |-> [c \in Callers |-> "out"], calls |-> [c \in Callers |-> 0]]

\* "if _IDLE_THREAD_STARTED: return"
EnsureEnter(c) ==
  /\ unit.pc[c] = "out"
  /\ unit.calls[c] < MaxEnsure
  /\ unit' = [unit EXCEPT !.calls[c] = @ + 1,
                          !.pc[c] = IF unit.flag THEN "out" ELSE "start"]
  /\ UNCHANGED <<rq, cfg, services, now, running, req, drv, st, mon, starts, pl>>

\* "t = threading.Thread(target=_idle_monitor_loop, ...); t.start()"
EnsureStart(c) ==
  /\ unit.pc[c] = "start"
  /\ unit' = [unit EXCEPT !.loops = @ + 1, !.pc[c] = "set"]
  /\ UNCHANGED <<rq, cfg, services, now, running, req, drv, st, mon, starts, pl>>

\* "_IDLE_THREAD_STARTED = True"
EnsureSet(c) ==
  /\ unit.pc[c] = "set"
  /\ unit' = [unit EXCEPT !.flag = TRUE, !.pc[c] = "out"]
  /\ UNCHANGED <<rq, cfg, services, now, running, req, drv, st, mon, starts, pl>>

MNext ==
  \/ \E c \in Callers : EnsureEnter(c)
  \/ \E c \in Callers : EnsureStart(c)
  \/ \E c \in Callers : EnsureSet(c)

MInit == UnitInit /\ unit = EnsureInit

MSpec == MInit /\ [][MNext]_vars

(***************************************************************************)
(* StrategyRegistry, called on its own.                                    *)
(***************************************************************************)
StrategyNames == {"router", "load_balancer", "custom"}
Factories == {"f1", "f2"}
NoFactory == "none"

\* _init_registry: "self._strategies = {}"
RegistryInit == [n \in StrategyNames |-> NoFactory]

\* a registration that binds the name whether or not it is taken
register_overwrite(strategies, name, strategy) ==
  [strategies |-> [strategies EXCEPT ![name] = strategy], raised |-> "none",
   value |-> NoFactory]

\* StrategyRegistry.register
register(strategies, name, strategy) ==
  IF strategies[name] # NoFactory
  THEN [strategies |-> strategies, raised |-> "ValueError", value |-> NoFactory]
  ELSE [strategies |-> [strategies EXCEPT ![name] = strategy], raised |-> "none",
        value |-> NoFactory]

\* StrategyRegistry.get_strategy
get_strategy(strategies, name) ==
  IF strategies[name] = NoFactory
  THEN [strategies |-> strategies, raised |-> "KeyError", value |-> NoFactory]
  ELSE [strategies |-> strategies, raised |-> "none", value |-> strategies[name]]

\* StrategyRegistry.clear
clear(strategies) ==
  [strategies |-> RegistryInit, raised |-> "none", value |-> NoFactory]

Called(op, name, strategy, res) ==
  /\ unit' = [of |-> "registry", op |-> op, name |-> name, strategy |-> strategy,
              strategies |-> res.strategies, raised |-> res.raised, value |-> res.value]
  /\ UNCHANGED <<rq, cfg, services, now, running, req, drv, st, mon, starts, pl>>

Register(name, strategy) ==
  Called("register", name, strategy, register(unit.strategies, name, strategy))

GetStrategy(name) ==
  Called("get_strategy", name, NoFactory, get_strategy(unit.strategies, name))

Clear == Called("clear", "none", NoFactory, clear(unit.strategies))

GNext ==
  \/ \E n \in StrategyNames, f \in Factories : Register(n, f)
  \/ \E n \in StrategyNames : GetStrategy(n)
  \/ Clear

GInit ==
  /\ UnitInit
  /\ unit = [of |-> "registry", op |-> "none", name |-> "none", strategy |-> NoFactory,
             strategies |-> RegistryInit, raised |-> "none", value |-> NoFactory]

GSpec == GInit /\ [][GNext]_vars

(***************************************************************************)
(* ModelRouterStrategy.route_request, called on its own.                   *)
(***************************************************************************)
\* values of a key of the request context or of by_model: "none" when the
\* key is absent
ModelValues == {"none", "", "m1", "m2"}
\* a value that Python takes as true
Truthy(v) == v \notin {"none", ""}

\* routing["by_model"]: the URL of each key, "none" for a key it does not hold
ByModels ==
  { [k \in {"", "m1", "m2"} |-> "none"],
    [k \in {"", "m1", "m2"} |-> IF k = "m1" THEN "A" ELSE "none"],
    [k \in {"", "m1", "m2"} |-> IF k = "m1" THEN "A" ELSE IF k = "m2" THEN "B" ELSE "none"],
    [k \in {"", "m1", "m2"} |-> IF k = "" THEN "B" ELSE "none"] }

\* the inputs of a call: the request context (its "model" and "engine" keys),
\* routing["model_key"] ("none": not given) and routing["by_model"],
\* config.instances, and whether the registry holds a load_balancer
RouterInputs ==
  [ ctx       : [model : ModelValues, engine : ModelValues],
    model_key : {"none", "model", "engine"},
    by_model  : ByModels,
    instances : {<<>>, <<"A", "B">>, <<NoUrlKey>>},
    lbreg     : BOOLEAN ]

\* the model value is read at model_key only
ModelValueAtKey(ctx, key) == ctx[key]

\* "request_context.get(model_key) or request_context.get('model')"
ModelValue(ctx, key) == IF Truthy(ctx[key]) THEN ctx[key] ELSE ctx["model"]

\* route_request: the URL returned, "none" for None.  The balancer it
\* delegates to is a new instance made by the registry's factory.
route_request(in) ==
  LET model_key   == IF in.model_key = "none" THEN "model" ELSE in.model_key
      model_value == ModelValue(in.ctx, model_key)
  IN IF Truthy(model_value) /\ in.by_model[model_value] # "none"
     THEN in.by_model[model_value]
     ELSE IF in.instances # <<>> /\ in.lbreg
     THEN Swallow(BalancerPick(in, LoadBalancerInit).picked)
     ELSE "none"

RouteRequest ==
  /\ unit.out = "pending"
  /\ unit' = [unit EXCEPT !.out = route_request(unit.in)]
  /\ UNCHANGED <<rq, cfg, services, now, running, req, drv, st, mon, starts, pl>>

RNext == RouteRequest

RInit == UnitInit /\ unit \in {[in |-> i, out |-> "pending"] : i \in RouterInputs}

RSpec == RInit /\ [][RNext]_vars

(***************************************************************************)
(* The model router behind the selector.  unit.lb is the balancer the      *)
(* application keeps in _strategy_instances["load_balancer"]: the one the  *)
(* selector's second tier asks and the one the pipeline's marks go to.     *)
(* The configuration is loaded again on every request.                     *)
(***************************************************************************)
\* the configurations of a request: strategy model_router or none, two or
\* three instances, load_balancer.py loaded, routing["by_model"] with or
\* without m1
DelegationConfigs ==
  [ strategy  : {"", "router"},
    instances : {<<"A", "B">>, <<"A", "B", "S">>},
    lbreg     : {TRUE},
    model_key : {"none"},
    by_model  : {b \in ByModels : b[""] = "none" /\ b["m2"] = "none"} ]

\* the context of a request: its "model"
DelegationContexts == [model : {"none", "m1"}, engine : {"none"}]

\* route_request reaches "delegate to LB if instances configured"
Delegates(in) ==
  LET model_key   == IF in.model_key = "none" THEN "model" ELSE in.model_key
      model_value == ModelValue(in.ctx, model_key)
  IN /\ ~(Truthy(model_value) /\ in.by_model[model_value] # "none")
     /\ in.instances # <<>> /\ in.lbreg

\* _resolve_upstream_base with the model router as the configured strategy
SelectUpstream(c, ctx) ==
  LET in  == [ctx |-> ctx, model_key |-> c.model_key, by_model |-> c.by_model,
              instances |-> c.instances, lbreg |-> c.lbreg]
      ret == IF StrategyAsked(c) THEN route_request(in) ELSE "none"
      res == resolve_upstream_base(c, unit.lb, ret)
  IN /\ unit' = [of |-> "delegation",
                 op |-> IF ~StrategyAsked(c) THEN "balancer"
                        ELSE IF Delegates(in) THEN "delegated" ELSE "by_model",
                 before |-> unit.lb, base |-> res.base, lb |-> res.lb]
     /\ UNCHANGED <<rq, cfg, services, now, running, req, drv, st, mon, starts, pl>>

\* the pipeline's marks after an attempt on instance u
PipelineMarks(c, u, healthy) ==
  /\ u \in InstanceUrls(c.instances)
  /\ unit' = [of |-> "delegation", op |-> IF healthy THEN "up" ELSE "down",
              before |-> unit.lb, base |-> u,
              lb |-> IF healthy THEN mark_instance_healthy_on_success(c, unit.lb, u)
                     ELSE mark_instance_unhealthy_on_error(c, unit.lb, u)]
  /\ UNCHANGED <<rq, cfg, services, now, running, req, drv, st, mon, starts, pl>>

XNext ==
  \/ \E c \in DelegationConfigs, ctx \in DelegationContexts : SelectUpstream(c, ctx)
  \/ \E c \in DelegationConfigs, u \in Urls, healthy \in BOOLEAN : PipelineMarks(c, u, healthy)

XInit ==
  /\ UnitInit
  /\ unit = [of |-> "delegation", op |-> "none", before |-> LoadBalancerInit,
             base |-> "none", lb |-> LoadBalancerInit]

XSpec == XInit /\ [][XNext]_vars

(***************************************************************************)
(* Startup drivers and the StartupFlag                                     *)
(***************************************************************************)
ActiveDrivers == {d \in Drivers : DriverActive(d)}

\* C1: at every instant at most one startup driver of the service is active,
\* whatever requests, proactive starts, status probes and idle-monitor sweeps
\* interleave.
C1_OneDriver == Cardinality(ActiveDrivers) <= 1

(***************************************************************************)
(* The status endpoint                                                     *)
(***************************************************************************)
\* a step of get_service_status
StatusStep == st' # st

C12_StatusReleasesWaiters ==
  [][(st.pc = "clear" /\ st'.pc = "idle")
       => \A w \in Waiters : rq.wsvc[w] = App => rq'.fut[w] # "pending"]_vars

(***************************************************************************)
(* The retry pipeline                                                      *)
(***************************************************************************)
\* N = max(1, retry_count)
PrimaryBudget == IF pl.conf.retry > 1 THEN pl.conf.retry ELSE 1

AllOutcomes(outs, S) == \A i \in 1..Len(outs) : outs[i] \in S
LoopOver(r) == r.pc \in {"fallback", "done"}

\* C13: when every primary attempt raises a transport error, exactly
\* N = max(1, retry_count) primary attempts are made (one when retry_count is
\* 0), then exactly one fallback attempt if fallback_url is set and none
\* otherwise; if the fallback raises too, or there is none, the answer is 503.
C13_TransportRetries ==
  \A p \in Runs :
    LET r == pl.run[p] IN
    AllOutcomes(r.outs, {TransportError}) =>
      /\ Len(r.outs) <= PrimaryBudget
      /\ LoopOver(r) => Len(r.outs) = PrimaryBudget
      /\ r.pc = "fallback" => pl.conf.fallback # "" /\ r.fbs = <<>>
      /\ r.pc = "done" => Len(r.fbs) = IF pl.conf.fallback # "" THEN 1 ELSE 0
      /\ (r.pc = "done" /\ AllOutcomes(r.fbs, {TransportError})) => r.resp = 503

\* retry_count = 2 and a fallback_url: two primary attempts raised, the one
\* fallback attempt raised, the answer is 503
C13_Witness ==
  \E p \in Runs :
    /\ pl.conf.retry = 2 /\ pl.conf.fallback # ""
    /\ pl.run[p].outs = <<TransportError, TransportError>>
    /\ pl.run[p].fbs = <<TransportError>>
    /\ pl.run[p].resp = 503

C15_Below500Ends ==
  \A p \in Runs :
    LET r == pl.run[p] IN
    \A i \in 1..Len(r.outs) :
      (r.outs[i] # TransportError /\ r.outs[i] < 500)
        => /\ i = Len(r.outs)
           /\ r.pc = "done" /\ r.resp = r.outs[i]
           /\ r.fbs = <<>>
           /\ r.slept <= i - 1

\* retry_count = 2 and a fallback_url: a 500, then a 404 that is the answer
C15_Witness ==
  \E p \in Runs :
    /\ pl.conf.fallback # "" /\ pl.conf.delay > 0
    /\ pl.run[p].outs = <<500, 404>>
    /\ pl.run[p].resp = 404

\* the health an attempt with outcome out leaves on the instance called
HealthAfter(out) ==
  IF out # TransportError /\ out < 500 THEN "healthy" ELSE "unhealthy"

\* C16: after every upstream attempt, primary or fallback, the instance that
\* was called (if the balancer tracks it) is healthy when the status was below
\* 500 and unhealthy when it was 500 or above or the call raised.
C16_HealthAfterAttempt ==
  [][\A p \in Runs :
       /\ (Len(pl'.run[p].outs) > Len(pl.run[p].outs)
            /\ pl.lb.health_status[pl.run[p].base] # "absent")
          => pl'.lb.health_status[pl.run[p].base]
               = HealthAfter(pl'.run[p].outs[Len(pl'.run[p].outs)])
       /\ (Len(pl'.run[p].fbs) > Len(pl.run[p].fbs)
            /\ pl.lb.health_status[pl.conf.fallback] # "absent")
          => pl'.lb.health_status[pl.conf.fallback]
               = HealthAfter(pl'.run[p].fbs[Len(pl'.run[p].fbs)])]_vars

\* a finished request whose last call of instance u ended in 5xx or raised
FailedOn(r, u) ==
  /\ r.pc = "done" /\ r.base = u /\ r.outs # <<>>
  /\ r.outs[Len(r.outs)] \in {500, TransportError}

\* C17: with instances [A, B] behind the load balancer, once a request to A
\* has ended in a 5xx response or a transport error, a request that arrives
\* while A is unhealthy is sent to B.
C17_FailoverToB ==
  [][\A p \in Runs :
       (/\ pl.run[p].pc = "new" /\ pl'.run[p].pc # "new"
        /\ pl'.run[p].reason = "load_balancer"
        /\ pl.conf.instances = <<"A", "B">>
        /\ pl.lb.health_status["A"] = "unhealthy"
        /\ pl.lb.health_status["B"] = "healthy"
        /\ \E q \in Runs : FailedOn(pl.run[q], "A"))
         => pl'.run[p].base = "B"]_vars

(***************************************************************************)
(* The selector                                                            *)
(***************************************************************************)
\* the configured strategy is registered and has returned a non-empty URL
StrategyGaveUrl(r) ==
  /\ pl.conf.strategy \in {"router"} \cup (IF pl.conf.lbreg THEN {"load_balancer"} ELSE {})
  /\ r.sret \notin {"none", "raise", ""}

BalancerAvailable == pl.conf.instances # <<>> /\ pl.conf.lbreg

\* C20 as stated: the selector gives the strategy's URL when the configured
\* strategy is registered and returns a non-empty URL; otherwise the load
\* balancer's pick when instances is non-empty and a load_balancer is
\* registered; otherwise base_url.
C20_SelectorPriority ==
  \A p \in Runs :
    LET r == pl.run[p] IN
    r.pc # "new" =>
      IF StrategyGaveUrl(r)
      THEN r.base = r.sret /\ r.reason = "strategy:" \o pl.conf.strategy
      ELSE IF BalancerAvailable
      THEN r.base = r.picked /\ r.reason = "load_balancer"
      ELSE r.base = BaseUrl /\ r.reason = "base_url"

\* C20, amended: the load balancer's pick is used only when it is a non-empty
\* URL; an empty pick falls through to base_url.
C20_SelectorPriorityNonEmptyPick ==
  \A p \in Runs :
    LET r == pl.run[p] IN
    r.pc # "new" =>
      IF StrategyGaveUrl(r)
      THEN r.base = r.sret /\ r.reason = "strategy:" \o pl.conf.strategy
      ELSE IF BalancerAvailable /\ r.picked \notin {"none", "", "raise"}
      THEN r.base = r.picked /\ r.reason = "load_balancer"
      ELSE r.base = BaseUrl /\ r.reason = "base_url"

\* instances configured and a load_balancer registered, the strategy gave no
\* URL, the balancer's pick was the empty string: base_url has answered
C20_Witness ==
  \E p \in Runs :
    /\ pl.run[p].pc # "new"
    /\ BalancerAvailable /\ pl.conf.strategy = "router" /\ pl.run[p].sret = ""
    /\ pl.run[p].picked = ""
    /\ pl.run[p].reason = "base_url"

(***************************************************************************)
(* Failure of a startup driver                                             *)
(***************************************************************************)
\* this step is the failure of a driver
DriverFails == \E d \in Drivers : drv[d].pc = "sleep" /\ drv'[d].pc = "free"

\* C18: when a startup driver fails, every waiter queued for the service is
\* completed with cancellation, the queue is left empty, the StartupFlag is
\* cleared and the service is not hot; and the client of a waiter so
\* cancelled is answered 503.
C18_DriverFailure ==
  [][/\ DriverFails =>
          /\ \A i \in 1..Len(rq.queues[App]) : rq'.fut[rq.queues[App][i]] = "cancelled"
          /\ rq'.queues[App] = <<>>
          /\ ~is_service_starting(rq', App)
          /\ services'[App].state # "hot"
     /\ \A r \in Reqs :
          (/\ req[r].pc = "wait" /\ req[r].cold
           /\ rq.fut[req[r].w] = "cancelled" /\ req'[r].pc = "done")
            => req'[r].resp = "503"]_vars

(***************************************************************************)
(* Activity stamps                                                         *)
(***************************************************************************)
\* C19: while a service stays hot, its last_used_ms never decreases, whatever
\* the interleaving of touches, status promotions and startup completions.
C19_StampMonotone ==
  [][\A s \in Services :
       (/\ services[s].state = "hot" /\ services'[s].state = "hot"
        /\ services[s].last # NoStamp)
         => services'[s].last >= services[s].last]_vars

\* the strategy, or the balancer, raised while this run was being routed
SelectionRaised(r) ==
  r.sret = "raise" \/ (r.picked = "raise" /\ r.reason # "strategy:" \o pl.conf.strategy)

\* C21: a strategy or a load balancer that raises during selection counts as
\* having returned none: the selector goes on to its next step (a strategy
\* that raised leaves the choice to the balancer or base_url, a balancer that
\* raised leaves it to base_url), and the request is proxied to that URL: a
\* finished run has made an upstream attempt and answers with a status.
C21_SelectionErrorsSwallowed ==
  \A p \in Runs :
    LET r == pl.run[p] IN
    (r.pc # "new" /\ SelectionRaised(r)) =>
      /\ r.sret = "raise" =>
            IF BalancerAvailable /\ r.picked \notin {"none", "", "raise"}
            THEN r.base = r.picked /\ r.reason = "load_balancer"
            ELSE r.base = BaseUrl /\ r.reason = "base_url"
      /\ r.picked = "raise" => r.base = BaseUrl /\ r.reason = "base_url"
      /\ r.pc \in {"primary", "sleep", "fallback", "done"}
      /\ r.pc = "done" => r.outs # <<>> /\ r.resp \in {200, 404, 500, 503}

\* the strategy raised and then the balancer raised; the request went to
\* base_url and was answered by it
C21_Witness ==
  \E p \in Runs :
    /\ pl.run[p].sret = "raise" /\ pl.run[p].picked = "raise"
    /\ pl.run[p].base = BaseUrl
    /\ pl.run[p].pc = "done" /\ pl.run[p].resp = 200

(***************************************************************************)
(* The model router                                                        *)
(***************************************************************************)
\* the key the model is read at
RoutingKey == IF unit.in.model_key = "none" THEN "model" ELSE unit.in.model_key

\* what the router answers when by_model does not decide: the load balancer's
\* pick when instances is non-empty and a load balancer is available (none if
\* it fails), else none
Delegated ==
  IF unit.in.instances # <<>> /\ unit.in.lbreg
  THEN (IF unit.in.instances = <<"A", "B">> THEN "A" ELSE "none")
  ELSE "none"

\* C22 as stated: with m the value of the request context at model_key
\* (default "model"), the router returns by_model[m] whenever m is a key of
\* by_model, and otherwise delegates to the load balancer or returns none.
C22_RouterByModel ==
  unit.out # "pending" =>
    LET m == unit.in.ctx[RoutingKey] IN
    IF m # "none" /\ unit.in.by_model[m] # "none"
    THEN unit.out = unit.in.by_model[m]
    ELSE unit.out = Delegated

\* C22, amended: m is the value at model_key or, when that value is absent
\* or empty, the value at "model"; the router returns by_model[m] whenever m
\* is non-empty and a key of by_model, and otherwise delegates or returns
\* none.
C22_RouterByModelOrDefaultKey ==
  unit.out # "pending" =>
    LET atkey == unit.in.ctx[RoutingKey]
        m == IF atkey \in {"none", ""} THEN unit.in.ctx["model"] ELSE atkey
    IN IF m \notin {"none", ""} /\ unit.in.by_model[m] # "none"
       THEN unit.out = unit.in.by_model[m]
       ELSE unit.out = Delegated

\* model_key names a key the context does not hold, the context's "model" is
\* a key of by_model: its URL was returned although a balancer was available
C22_Witness ==
  /\ unit.in.model_key = "engine" /\ unit.in.ctx.engine = "none"
  /\ unit.in.ctx.model = "m2" /\ unit.in.instances = <<"A", "B">> /\ unit.in.lbreg
  /\ unit.out = "B"

(***************************************************************************)
(* The two entry shapes                                                    *)
(***************************************************************************)
\* C23: given the same configuration, lifecycle state and upstream outcomes,
\* the transparent proxy and the dispatcher have claimed the flag and queued
\* alike, made the same primary and fallback attempts with the same delays,
\* left the same instance health, left the same activity stamp on the record and
\* given the same status.
C23_OneBehaviour ==
  unit.step = "run" =>
    /\ unit.px.rq = unit.gw.rq /\ unit.px.launched = unit.gw.launched
    /\ unit.px.run = unit.gw.run
    /\ unit.px.lb = unit.gw.lb
    /\ unit.px.rec = unit.gw.rec

\* a cold service, both shapes claimed the flag and queued, retried after a
\* 500, and answered with the fallback's 404
C23_Witness ==
  /\ unit.step = "run" /\ unit.px.rec.ex /\ unit.px.rec.last = 3
  /\ unit.px.launched /\ Len(unit.px.rq.queues[App]) = 1
  /\ unit.gw.run.pc = "done" /\ unit.gw.run.outs = <<500, TransportError>>
  /\ unit.gw.run.fbs = <<404>> /\ unit.px.run.resp = 404

\* an attempt that did not give a response a client may take as the answer of
\* a working upstream: it raised, or the status was 500 or above
AttemptFailed(out) == out = TransportError \/ out >= 500

\* C24: a request that has been answered made at most N primary attempts and
\* at most one fallback attempt, has exactly one status, and that status is
\* 503 when every primary attempt failed and the fallback is unset or raised.
C24_BoundedAttemptsThen503 ==
  \A p \in Runs :
    LET r == pl.run[p] IN
    r.pc = "done" =>
      /\ Len(r.outs) <= PrimaryBudget /\ Len(r.fbs) <= 1
      /\ r.resp # NoResponse
      /\ (/\ Len(r.outs) = PrimaryBudget
          /\ \A i \in 1..Len(r.outs) : AttemptFailed(r.outs[i])
          /\ r.fbs \in {<<>>, <<TransportError>>}) => r.resp = 503

(***************************************************************************)
(* Completion of startup drivers                                           *)
(***************************************************************************)
\* driver d ends in this step; with success when it ends from its last write
Completes(d) == DriverActive(d) /\ drv'[d].pc = "free"
Succeeds(d) == drv[d].pc = "w_last" /\ drv'[d].pc = "free"

DriverCompletion ==
  \A d \in Drivers :
    /\ Completes(d) => ~rq'.starting[App]
    /\ Succeeds(d) =>
         /\ rq'.queues[App] = <<>>
         /\ \A i \in 1..Len(rq.queues[App]) :
              LET w == rq.queues[App][i] IN
              rq'.fut[w] = "released" /\ rq'.sets[w] = rq.sets[w] + 1

\* C26: every startup driver that is launched eventually completes; when it
\* completes the StartupFlag is clear; when it completes with success every
\* future that was in the queue is completed, once, with the release payload
\* and the queue is left empty.
C26_DriverCompletes ==
  /\ \A d \in Drivers : DriverActive(d) ~> ~DriverActive(d)
  /\ [][DriverCompletion]_vars

\* a driver has released two waiting requests in one batch and is done
C26_Witness ==
  /\ \A d \in Drivers : ~DriverActive(d)
  /\ rq.log[App] = <<1, 2>> /\ rq.fut[1] = "released" /\ rq.fut[2] = "released"
  /\ ~rq.starting[App] /\ rq.queues[App] = <<>>

\* the future of waiter w is completed with the release payload in this step;
\* its continuation is scheduled by this step and finds the record as the step
\* leaves it
ReleasedNow(w) == rq.fut[w] = "pending" /\ rq'.fut[w] = "released"

\* C27: every waiter that a release batch releases observes state = hot and
\* readiness = ready when it resumes, also when the idle monitor or another
\* handler has run since the driver began to promote the record.
C27_ReleasedSeeReady ==
  [][\A w \in Waiters : ReleasedNow(w) => IsReady(services'[App])]_vars

(***************************************************************************)
(* The service record                                                      *)
(***************************************************************************)
Hot(rec) == rec.state = "hot"

\* C28: the record becomes hot only in a step of a startup driver or of the
\* status probe, and leaves hot only in a step of the idle monitor; no step of
\* a request handler (touch) makes it hot.
C28_HotOnlyByStartup ==
  [][/\ (~Hot(services[App]) /\ Hot(services'[App])) => (drv' # drv \/ st' # st)
     /\ (Hot(services[App]) /\ ~Hot(services'[App])) => mon' # mon]_vars

\* the outcome of the upstream attempt that ended in this step of the proxy
AttemptOutcome ==
  IF Len(unit'.px.run.outs) > Len(unit.px.run.outs)
  THEN unit'.px.run.outs[Len(unit'.px.run.outs)]
  ELSE IF Len(unit'.px.run.fbs) > Len(unit.px.run.fbs)
  THEN unit'.px.run.fbs[Len(unit'.px.run.fbs)]
  ELSE NoResponse

\* C29: during a request last_used_ms changes only when an upstream attempt
\* has ended in a response with a status below 500; a 5xx response or a
\* transport error leaves it as it was.
C29_StampOnlyBelow500 ==
  [][(unit.step = "run" /\ unit'.px.rec # unit.px.rec) =>
       (AttemptOutcome \in {200, 404})]_vars

(***************************************************************************)
(* The load balancer                                                       *)
(***************************************************************************)
\* run p took its upstream from the balancer and has not made it unhealthy
BalancedAndWell(r) ==
  r.reason = "load_balancer" /\ AllOutcomes(r.outs, {200, 404})

\* C31: with instances [A, B], both healthy and staying so, two consecutive
\* requests routed through the selector are given A and then B: each healthy
\* instance once, in configured order.
C31_RoundRobinThroughSelector ==
  (/\ pl.conf.instances = <<"A", "B">>
   /\ BalancedAndWell(pl.run[1]) /\ BalancedAndWell(pl.run[2]))
    => pl.run[1].base = "A" /\ pl.run[2].base = "B"

HealthyUrls(lb) == {u \in InstanceUrls(lb.instances) : lb.health_status[u] = "healthy"}

C32_RegisterIdempotent ==
  (/\ unit.op = "register" /\ unit.before.known
   /\ unit.before.instances = unit.lb.instances)
    => /\ unit.lb.current_index = unit.before.current_index
       /\ unit.lb.health_status = unit.before.health_status

(***************************************************************************)
(* The idle monitor                                                        *)
(***************************************************************************)
\* C33: with idle_timeout_ms = 0 no step takes the record from hot to cold or
\* from ready to not ready, however old last_used_ms is.
C33_ZeroDisablesIdle ==
  [][cfg.idle = 0 =>
       /\ Hot(services[App]) => Hot(services'[App])
       /\ services[App].readiness = "ready" => services'[App].readiness = "ready"]_vars

\* idle shutdown disabled, the record hot with a stamp three ticks old, and
\* the monitor has swept at least twice since the stamp
C33_Witness ==
  /\ cfg.idle = 0 /\ IsReady(services[App])
  /\ services[App].last = 0 /\ now = 3
  /\ mon.started /\ mon.wake > 3

\* C38: no waiter is stranded: while the service's queue holds a waiter and
\* the record is not hot/ready, a startup driver of the service is active (so
\* a waiter enqueued after a driver's release batch is released by a driver
\* too, not only by its deadline).
C38_NoStrandedWaiter ==
  (rq.queues[App] # <<>> /\ ~IsReady(services[App]))
    => \E d \in Drivers : DriverActive(d)

\* the idle monitor writes the record in this step (state = cold, or
\* readiness = not_ready after it)
MonitorWrites ==
  /\ mon.pc \in {"check", "w_ready"}
  /\ mon'.pc # mon.pc
  /\ services'[App] # services[App]

\* C39: when the idle monitor writes the record cold, the record as it is at
\* that moment is idle for idle_timeout_ms or longer and, at the second of the
\* two writes, still cold: a touch or a promotion to hot that landed after
\* the monitor read last_used_ms or the state is not overwritten.
C39_DemotionNotStale ==
  [][MonitorWrites =>
       /\ services[App].last # NoStamp
       /\ now - services[App].last >= cfg.idle
       /\ mon.pc = "w_ready" => services[App].state = "cold"]_vars

\* C40: the balancer the model router delegates to has the InstanceHealth the
\* pipeline updates: the delegated pick is not an instance that the
\* application's balancer holds as unhealthy while it holds another instance
\* as healthy.
C40_RouterSharesHealth ==
  (/\ unit.op = "delegated"
   /\ \E u \in InstanceUrls(unit.before.instances) : unit.before.health_status[u] = "healthy")
    => unit.before.health_status[unit.base] # "unhealthy"

\* C37: at most one idle-monitor loop is ever started, also when the first
\* calls of the endpoints run _ensure_idle_monitor_started at the same time.
C37_OneMonitorLoop == unit.loops <= 1

(***************************************************************************)
(* The strategy registry                                                   *)
(***************************************************************************)
\* C25: registering under a name that is already registered raises and
\* leaves the registry as it was, the first factory still bound to the name;
\* looking up a name that is not registered raises.
C25_DuplicateAndMissing ==
  [][ /\ ((unit'.op = "register" /\ unit.strategies[unit'.name] # NoFactory) =>
            (unit'.raised = "ValueError" /\ unit'.strategies = unit.strategies))
      /\ ((unit'.op = "get_strategy" /\ unit.strategies[unit'.name] = NoFactory) =>
            unit'.raised = "KeyError") ]_vars

\* a second registration of "router" with another factory has raised, and
\* the first factory is still the one bound
C25_Witness ==
  /\ unit.op = "register" /\ unit.name = "router" /\ unit.strategy = "f2"
  /\ unit.raised = "ValueError" /\ unit.strategies["router"] = "f1"

(***************************************************************************)
(* Request handlers and the queue                                          *)
(***************************************************************************)
\* C2: a request that found its service not hot/ready has issued no upstream
\* call unless the future queue_request gave it has been released.
C2_HeldUntilReleased ==
  \A r \in Reqs :
    (req[r].cold /\ req[r].calls > 0) => rq.fut[req[r].w] = "released"

\* C3: every future created by queue_request is completed exactly once, with
\* one outcome that never changes afterwards (a timer that runs after a
\* release, or a release after a timeout, leaves it alone), and no future
\* stays pending for ever.
C3_ExactlyOnce ==
  /\ [](\A w \in Waiters :
          /\ rq.sets[w] <= 1
          /\ FutureDone(rq.fut[w]) <=> rq.sets[w] = 1
          /\ rq.fut[w] = "none" <=> w >= rq.nextW)
  /\ [][\A w \in Waiters :
          FutureDone(rq.fut[w]) => rq'.fut[w] = rq.fut[w] /\ rq'.sets[w] = rq.sets[w]]_vars
  /\ \A w \in Waiters : (rq.fut[w] = "pending") ~> FutureDone(rq.fut[w])

\* the three outcomes side by side, the released future's timer having run
\* after the release
C3_Witness ==
  \E w1, w2, w3 \in Waiters :
    /\ rq.fut[w1] = "released" /\ rq.timer[w1] = "fired" /\ rq.sets[w1] = 1
    /\ rq.fut[w2] = "timeout"
    /\ rq.fut[w3] = "cancelled"

\* C4: within one service the futures are released in the order they were
\* enqueued (futures are numbered in the order queue_request creates them).
C4_FifoRelease ==
  \A s \in Services :
    \A i, j \in 1..Len(rq.log[s]) : i < j => rq.log[s][i] < rq.log[s][j]

\* futures 1 and 3 released in this order, future 2, enqueued between them,
\* having timed out
C4_Witness ==
  /\ rq.log["a"] = <<1, 3>>
  /\ rq.wsvc[2] = "a"
  /\ rq.fut[2] = "timeout"

\* C5: the number of entries queued for the service never exceeds the
\* service's configured queue_size.
C5_QueueSizeBound == pending_requests(rq, App) <= cfg.qsize

\* C6: a request whose future timed out (its deadline passed before the
\* service was ready) has made no upstream call.
C6_TimeoutNoUpstream ==
  \A r \in Reqs :
    (req[r].cold /\ req[r].w # 0 /\ rq.fut[req[r].w] = "timeout") => req[r].calls = 0

(***************************************************************************)
(* The service record                                                      *)
(***************************************************************************)
\* the pairing of state and readiness
Consistent(state, readiness) ==
  /\ state = "hot" => readiness = "ready"
  /\ state \in {"cold", "starting", "stopping"} => readiness = "not_ready"

\* C7: in every state another thread or handler can observe, the service
\* record pairs hot with ready and cold, starting, stopping with not_ready
\* (a missing key read as the status endpoint reads it), and so does the pair
\* the status endpoint is about to return.
C7_RecordPairing ==
  /\ services[App].ex =>
       Consistent(StateOr(services[App]), ReadinessOr(services[App]))
  /\ st.pc \in {"clear", "end"} =>
       Consistent(StatusState(IF st.pc = "clear" THEN StatusClear(rq) ELSE rq,
                              st.state, st.readiness),
                  st.readiness)

\* a promotion (driver or status endpoint) is between its write of "hot" and
\* its write of last_used_ms
Stamping ==
  \/ \E d \in Drivers : drv[d].pc = "w_last"
  \/ st.pc \in {"w_ready", "w_last"}

\* C8: a record that is hot under idle_timeout_ms > 0 is never older than
\* idle_timeout_ms plus one monitor period: the sweep that follows the expiry
\* sets it cold.
C8_IdleDemotion ==
  LET rec == services[App] IN
    (rec.state = "hot" /\ cfg.idle > 0 /\ rec.last # NoStamp /\ ~Stamping)
      => now - rec.last < cfg.idle + MonitorPeriod

\* the monitor has set an expired record cold/not_ready and sleeps again
C8_Witness ==
  LET rec == services[App] IN
    /\ rec.state = "cold" /\ rec.readiness = "not_ready"
    /\ rec.last # NoStamp /\ now - rec.last >= cfg.idle
    /\ mon.pc = "sleep"

(***************************************************************************)
(* start_service_proactively                                               *)
(***************************************************************************)
Conflict == {"409r", "409s"}
LastAnswer == starts.answers[Len(starts.answers)]
\* this step is a call of the endpoint
IsStartCall == Len(starts'.answers) = Len(starts.answers) + 1
NewAnswer == starts'.answers[Len(starts'.answers)]

\* C9 as the specification states it: the call that follows a call answered
\* 202, with no other client call between the two, is answered 409, whatever
\* the idle monitor did in between.
C9_SecondIsConflict ==
  (starts.answers # <<>> /\ starts.second # "none") => LastAnswer \in Conflict

\* C9, amended: the call that follows a call answered 202, with no other
\* client call and no write of the idle monitor to the record between the
\* two, is answered 409 and launches no driver.
C9_SecondIsConflictUnlessDemoted ==
  [][(IsStartCall /\ starts.first = "clean")
       => (NewAnswer \in Conflict /\ drv' = drv)]_vars

\* two calls, 202 then 409 "already starting", nothing in between
C9_Witness ==
  /\ starts.answers = <<"202", "409s">>
  /\ starts.second = "clean"

\* C10: a call on a hot/ready record is answered 409 "already running", a
\* call while the StartupFlag is set is answered 409 ("already starting"
\* unless the record is hot/ready); both leave the record, the flag, the
\* queue and the drivers as they were.
C10_ConflictChangesNothing ==
  [][IsStartCall =>
       /\ IsReady(services[App]) =>
            (NewAnswer = "409r" /\ UNCHANGED <<services, rq, drv>>)
       /\ is_service_starting(rq, App) =>
            (NewAnswer \in Conflict /\ UNCHANGED <<services, rq, drv>>)
       /\ (is_service_starting(rq, App) /\ ~IsReady(services[App])) =>
            NewAnswer = "409s"]_vars

\* both answers have been given
C10_Witness == starts.answers = <<"409s", "409r">>

(***************************************************************************)
(* The queues, service by service                                          *)
(***************************************************************************)
\* the step completes the pending future w with QueueTimeoutError
TimesOut(w) == rq.fut[w] = "pending" /\ rq'.fut[w] = "timeout"

\* C34: the step in which a pending waiter's timer expires removes that
\* waiter's entry, and only it, from the queue of its service: the entries
\* that stay keep their order, and the queue of every other service is as it
\* was.
C34_TimeoutRemovesOnlyItsEntry ==
  [][\A w \in Waiters :
       TimesOut(w) =>
         /\ \E i \in 1..Len(rq.queues[rq.wsvc[w]]) : rq.queues[rq.wsvc[w]][i] = w
         /\ rq'.queues[rq.wsvc[w]] =
              SelectSeq(rq.queues[rq.wsvc[w]], LAMBDA x : x # w)
         /\ \A s \in Services \ {rq.wsvc[w]} : rq'.queues[s] = rq.queues[s]]_vars

\* future 2 timed out behind future 1, which still waits at the head of the
\* same queue, while future 3 waits for the other service
C34_Witness ==
  /\ rq.queues["a"] = <<1>> /\ rq.fut[1] = "pending"
  /\ rq.wsvc[2] = "a" /\ rq.fut[2] = "timeout"
  /\ rq.queues["b"] = <<3>> /\ rq.fut[3] = "pending"

\* the results of the six operations of RequestQueue on service s
OperationsOn(s) ==
  (IF QueueFull(rq.queues[s]) \/ rq.nextW > MaxWaiters THEN {}
   ELSE {queue_request(rq, s, DefaultTimeout, now)})
  \cup (IF rq.queues[s] = <<>> THEN {} ELSE {process_next_request(rq, s)})
  \cup {process_all_requests(rq, s), clear_queue(rq, s),
        mark_service_starting(rq, s), mark_service_ready(rq, s)}

\* the queue, the waiters and the StartupFlag of service b are as they were
ServiceUntouched(b) ==
  /\ rq'.queues[b] = rq.queues[b]
  /\ rq'.starting[b] = rq.starting[b]
  /\ \A w \in Waiters :
       (rq.fut[w] # "none" /\ rq.wsvc[w] = b) =>
         rq'.fut[w] = rq.fut[w] /\ rq'.wsvc[w] = b

\* C35: queue_request, process_next_request, process_all_requests,
\* clear_queue, mark_service_starting and mark_service_ready on one service
\* leave the queue, the waiters and the StartupFlag of every other service
\* unchanged.
C35_PerServiceFrame ==
  [][\A s \in Services :
       rq' \in OperationsOn(s) => \A b \in Services \ {s} : ServiceUntouched(b)]_vars

\* service a has had a waiter released and its flag cleared, while the waiter
\* and the flag of service b are still there
C35_Witness ==
  /\ rq.wsvc[1] = "a" /\ rq.fut[1] = "released" /\ ~rq.starting["a"]
  /\ rq.queues["b"] = <<2>> /\ rq.fut[2] = "pending" /\ rq.starting["b"]

\* the futures of service s that are not done
Waiting(s) == {w \in Waiters : rq.fut[w] = "pending" /\ rq.wsvc[w] = s}

QNext ==
  \/ \E s \in Services : QueueRequest(s)
  \/ \E s \in Services : QueueRequestFull(s)
  \/ \E w \in Waiters : QTimeout(w)
  \/ \E w \in Waiters : QDoneCallback(w)
  \/ \E s \in Services : QProcessNext(s)
  \/ \E s \in Services : QProcessAll(s)
  \/ \E s \in Services : QClearQueue(s)
  \/ \E s \in Services : QMarkStarting(s)
  \/ \E s \in Services : QMarkReady(s)

QInit == Init /\ cfg = CHOOSE c \in Configs : c.health

QSpec == QInit /\ [][QNext]_vars

\* asyncio runs a timer that is armed
FairQSpec == QSpec /\ \A w \in Waiters : WF_vars(QTimeout(w))

====
